---- MODULE Spec2Model ----
(***************************************************************************)
(* State-machine model of the operation gate (core/state_manager.py,       *)
(* UIStateManager) and of the asynchronous workers (gui/workers.py) that   *)
(* run segmentation and mask refinement off the UI thread.                 *)
(***************************************************************************)
EXTENDS Integers, Sequences, FiniteSets, TLC

(***************************************************************************)
(* Bounds of the model.                                                    *)
(***************************************************************************)
\* number of distinct callback functions a caller may register
NumCallbacks == 1
\* largest number of states that have a callback registered at one time
MaxRegistered == 1
\* number of worker threads that can exist at the same time
MaxJobs == 2
\* largest number of progress callbacks of one segment() call of the model
MaxModelProgress == 2
\* largest number of slices (mask.shape[0]) of a mask refined
MaxSlices == 11
\* calls of stage functions a caller chains
MaxCalls == 2
SliceCounts == {1, MaxSlices}
\* the percentages a segmentation model reports
ModelProgress == {10, 90}

(***************************************************************************)
(* class UIState(Enum): the members, each written as its .value            *)
(***************************************************************************)
INITIAL == "initial"
VOLUME_LOADED == "volume_loaded"
ROI1_DEFINED == "roi1_defined"
ROI2_DEFINED == "roi2_defined"
ROI_DEFINED == "roi_defined"
SEGMENTING == "segmenting"
MASK_READY == "mask_ready"
REFINING == "refining"
SAVING == "saving"

\* the enumeration with one more member
UIStateWithLoading ==
  {INITIAL, VOLUME_LOADED, ROI1_DEFINED, ROI2_DEFINED, ROI_DEFINED,
   SEGMENTING, MASK_READY, REFINING, SAVING, "loading"}

UIState ==
  {INITIAL, VOLUME_LOADED, ROI1_DEFINED, ROI2_DEFINED, ROI_DEFINED,
   SEGMENTING, MASK_READY, REFINING, SAVING}

\* Objects that are not members of UIState and that a caller can still pass
\* to transition_to (Python checks no types): one that has a .value
\* attribute (a member of some other Enum), one that has none (None, a str).
OtherEnumMember == "other_enum_member"
NoValueObject == "no_value_object"
NonMembers == {OtherEnumMember, NoValueObject}

\* new_state.value in the print of transition_to: defined for Enum members
\* only, AttributeError otherwise
HasValueAttr(x) == x \in UIState \cup {OtherEnumMember}

(***************************************************************************)
(* Widgets.  The names are the ones the _set_*_state methods use.          *)
(***************************************************************************)
ParamWidgets ==
  <<"slider_hu_min", "slider_hu_max", "slider_dilation", "slider_closing",
    "cb_fill_holes", "btn_conservative_preset", "btn_aggressive_preset">>

ButtonNames ==
  {"btn_load", "btn_draw_roi1", "btn_draw_roi2", "btn_reset_roi",
   "btn_segment", "btn_apply_refinement", "btn_reset_mask", "btn_save",
   "slice_slider"}

WidgetNames == ButtonNames \cup {ParamWidgets[i] : i \in DOMAIN ParamWidgets}

\* The dictionaries a caller passes to register_widgets: name -> object.
\* "QWidget" is the Qt widget of that name, "object" is an object without
\* a setEnabled method.
NoWidgets == [n \in {} |-> "QWidget"]
AllWidgets == [n \in WidgetNames |-> "QWidget"]
SomeWidgets ==
  [n \in {"btn_load", "btn_segment", "btn_save", "slice_slider"} |->
     IF n = "slice_slider" THEN "object" ELSE "QWidget"]
WidgetDicts == {AllWidgets, SomeWidgets}

\* the enabled flags of the Qt widgets when the gate is constructed
AllEnabled == [n \in WidgetNames |-> TRUE]
AllDisabled == [n \in WidgetNames |-> FALSE]

Callbacks == 1 .. NumCallbacks

VARIABLES
  current_state,    \* UIStateManager._current_state
  widgets,          \* UIStateManager._widgets: name -> registered object
  state_callbacks,  \* UIStateManager._state_callbacks: state -> callback
  enabled,          \* isEnabled() of the Qt widget of each name
  lastCall,         \* the last call on the gate: operation, argument,
                    \* outcome and the callbacks it invoked, in order
  jobs,             \* the worker threads of the session
  signals,          \* Qt signals emitted by workers, queued for the UI thread
  heap,             \* the ndarray buffers: a name refers to a buffer by index
  procCall,         \* the last call of a function of core/processing.py:
                    \* its arguments, its outcome and what it returned
  roi1_3d,          \* ROIManager.roi1_3d
  roi2_3d,          \* ROIManager.roi2_3d
  roiCall,          \* the last call on the ROIManager and its outcome
  selector,         \* the fields of the ROISelector
  canvas_callbacks, \* the handlers connected to ax.figure.canvas
  ax_patches,       \* the rectangles drawn on ax
  handled,          \* the last event a handler of the selector was called
                    \* with, and the calls of callback the handler made
  segmenter,        \* the fields of the LungMaskSegmenter
  segCall,          \* the last call of LungMaskSegmenter.segment: where it
                    \* is, the progress it reported and its outcome
  registry,         \* ModelRegistry._models and ModelRegistry._instances
  registryCall,     \* the last call on the ModelRegistry and its outcome
  reentry           \* the calls of transition_to that have not returned
                    \* yet, each waiting for its callback to return

vars == <<current_state, widgets, state_callbacks, enabled, lastCall,
          jobs, signals, heap, procCall, roi1_3d, roi2_3d, roiCall,
          selector, canvas_callbacks, ax_patches, handled,
          segmenter, segCall, registry, registryCall, reentry>>

gateVars == <<current_state, widgets, state_callbacks, enabled, lastCall>>

managerVars == <<roi1_3d, roi2_3d, roiCall>>

selectorVars == <<selector, canvas_callbacks, ax_patches, handled>>

roiVars == <<managerVars, selectorVars>>

segmenterVars == <<segmenter, segCall>>

registryVars == <<registry, registryCall>>

pluginVars == <<segmenterVars, registryVars, reentry>>

\* Python's None
None == <<>>

NoRoiCall ==
  [op |-> "none", after |-> "none", volume_shape |-> None,
   outcome |-> "none", result |-> None]

NoEvent ==
  [handler |-> "none",
   event |-> [inaxes |-> None, xdata |-> None, ydata |-> None],
   callback |-> <<>>]

\* ROIManager.__init__
ManagerInit ==
  /\ roi1_3d = None
  /\ roi2_3d = None
  /\ roiCall = NoRoiCall

\* ROISelector.__init__, on a canvas with no handler and axes with no patch
SelectorInit ==
  /\ selector = [rect |-> None, x0 |-> None, y0 |-> None, press |-> None,
                 cidpress |-> None, cidrelease |-> None, cidmotion |-> None]
  /\ canvas_callbacks = {}
  /\ ax_patches = {}
  /\ handled = NoEvent

RoiInit == ManagerInit /\ SelectorInit

\* LungMaskSegmenter(): use_cpu=False, batch_size=20, self._inferer = None
NoSegmenter ==
  [use_cpu |-> FALSE, device |-> "cuda", batch_size |-> 20,
   _inferer |-> None]

\* segment was not called yet
NoSegCall ==
  [pc |-> "none", n |-> 0, n_slices |-> 0, attempt |-> 0, loads |-> 0,
   batch_idx |-> 0, use_cpu_on_entry |-> FALSE, first_error |-> None,
   progress |-> <<>>, outcome |-> "none", error |-> None, stats |-> None]

SegmenterInit ==
  /\ segmenter = NoSegmenter
  /\ segCall = NoSegCall

NoRegistryCall ==
  [op |-> "none", n |-> 0, display_name |-> "", kwargs |-> <<>>,
   cache_key |-> None, outcome |-> "none", result |-> None]

\* ModelRegistry.__init__: self._models = {}, self._instances = {}
RegistryInit ==
  /\ registry = [_models |-> <<>>, _instances |-> <<>>]
  /\ registryCall = NoRegistryCall

\* no call of transition_to is in progress
NoReentry ==
  [stack |-> <<>>, calls |-> 0, last_target |-> "", invoked |-> <<>>,
   entered |-> None]

PluginInit == SegmenterInit /\ RegistryInit /\ reentry = NoReentry

(***************************************************************************)
(* UIStateManager._set_widget_enabled: e is the enabled flag of every Qt   *)
(* widget, w the registered dictionary.                                    *)
(***************************************************************************)
_set_widget_enabled(e, w, widget_name, val) ==
  IF widget_name \in DOMAIN w
    THEN IF w[widget_name] = "QWidget"     \* hasattr(widget, 'setEnabled')
           THEN [e EXCEPT ![widget_name] = val]
           ELSE e
    ELSE e

\* a run of _set_widget_enabled calls, in order: calls is a sequence of
\* <<widget_name, enabled>> pairs
RECURSIVE SetEach(_, _, _)
SetEach(e, w, calls) ==
  IF calls = <<>> THEN e
  ELSE SetEach(_set_widget_enabled(e, w, calls[1][1], calls[1][2]),
               w, Tail(calls))

\* UIStateManager._set_refinement_params_enabled: its calls
_set_refinement_params_enabled(val) ==
  [i \in DOMAIN ParamWidgets |-> <<ParamWidgets[i], val>>]

\* The _set_*_state methods: the calls each makes, in source order
_set_initial_state ==
  << <<"btn_load", TRUE>>, <<"btn_draw_roi1", FALSE>>,
     <<"btn_draw_roi2", FALSE>>, <<"btn_reset_roi", FALSE>>,
     <<"btn_segment", FALSE>>, <<"btn_apply_refinement", FALSE>>,
     <<"btn_reset_mask", FALSE>>, <<"btn_save", FALSE>>,
     <<"slice_slider", FALSE>> >>
  \o _set_refinement_params_enabled(FALSE)

_set_volume_loaded_state ==
  << <<"btn_load", TRUE>>, <<"btn_draw_roi1", TRUE>>,
     <<"btn_draw_roi2", FALSE>>, <<"btn_reset_roi", TRUE>>,
     <<"btn_segment", FALSE>>, <<"btn_apply_refinement", FALSE>>,
     <<"btn_reset_mask", FALSE>>, <<"btn_save", FALSE>>,
     <<"slice_slider", TRUE>> >>
  \o _set_refinement_params_enabled(FALSE)

_set_roi1_defined_state ==
  << <<"btn_load", TRUE>>, <<"btn_draw_roi1", TRUE>>,
     <<"btn_draw_roi2", TRUE>>, <<"btn_reset_roi", TRUE>>,
     <<"btn_segment", FALSE>>, <<"btn_apply_refinement", FALSE>>,
     <<"btn_reset_mask", FALSE>>, <<"btn_save", FALSE>>,
     <<"slice_slider", TRUE>> >>
  \o _set_refinement_params_enabled(FALSE)

_set_roi_defined_state ==
  << <<"btn_load", TRUE>>, <<"btn_draw_roi1", TRUE>>,
     <<"btn_draw_roi2", TRUE>>, <<"btn_reset_roi", TRUE>>,
     <<"btn_segment", TRUE>>, <<"btn_apply_refinement", FALSE>>,
     <<"btn_reset_mask", FALSE>>, <<"btn_save", FALSE>>,
     <<"slice_slider", TRUE>> >>
  \o _set_refinement_params_enabled(FALSE)

_set_segmenting_state ==
  << <<"btn_load", FALSE>>, <<"btn_draw_roi1", FALSE>>,
     <<"btn_draw_roi2", FALSE>>, <<"btn_reset_roi", FALSE>>,
     <<"btn_segment", FALSE>>, <<"btn_apply_refinement", FALSE>>,
     <<"btn_reset_mask", FALSE>>, <<"btn_save", FALSE>>,
     <<"slice_slider", TRUE>> >>
  \o _set_refinement_params_enabled(FALSE)

_set_mask_ready_state ==
  << <<"btn_load", TRUE>>, <<"btn_draw_roi1", TRUE>>,
     <<"btn_draw_roi2", TRUE>>, <<"btn_reset_roi", TRUE>>,
     <<"btn_segment", TRUE>>, <<"btn_apply_refinement", TRUE>>,
     <<"btn_reset_mask", TRUE>>, <<"btn_save", TRUE>>,
     <<"slice_slider", TRUE>> >>
  \o _set_refinement_params_enabled(TRUE)

_set_refining_state ==
  << <<"btn_load", FALSE>>, <<"btn_draw_roi1", FALSE>>,
     <<"btn_draw_roi2", FALSE>>, <<"btn_reset_roi", FALSE>>,
     <<"btn_segment", FALSE>>, <<"btn_apply_refinement", FALSE>>,
     <<"btn_reset_mask", FALSE>>, <<"btn_save", FALSE>>,
     <<"slice_slider", TRUE>> >>
  \o _set_refinement_params_enabled(FALSE)

_set_saving_state ==
  << <<"btn_load", FALSE>>, <<"btn_save", FALSE>>,
     <<"btn_apply_refinement", FALSE>> >>

(***************************************************************************)
(* UIStateManager._apply_state: the if/elif chain over the current state.  *)
(* A state without a branch (ROI2_DEFINED, a non-member) changes nothing.  *)
(***************************************************************************)
_apply_state(state, e, w) ==
  IF state = INITIAL THEN SetEach(e, w, _set_initial_state)
  ELSE IF state = ROI1_DEFINED THEN SetEach(e, w, _set_roi1_defined_state)
  ELSE IF state = VOLUME_LOADED THEN SetEach(e, w, _set_volume_loaded_state)
  ELSE IF state = ROI_DEFINED THEN SetEach(e, w, _set_roi_defined_state)
  ELSE IF state = SEGMENTING THEN SetEach(e, w, _set_segmenting_state)
  ELSE IF state = MASK_READY THEN SetEach(e, w, _set_mask_ready_state)
  ELSE IF state = REFINING THEN SetEach(e, w, _set_refining_state)
  ELSE IF state = SAVING THEN SetEach(e, w, _set_saving_state)
  ELSE e

(***************************************************************************)
(* The capability predicates, as functions of the current state.           *)
(***************************************************************************)
\* loading allowed while a save is running
can_load_dicom_while_saving(state) == state \notin {SEGMENTING, REFINING}

can_load_dicom(state) == state \notin {SEGMENTING, REFINING, SAVING}

\* segmentation allowed only before the first mask
can_segment_first_only(state) == state = ROI_DEFINED

\* segmentation allowed while a refinement is running
can_segment_while_refining(state) ==
  state \in {ROI_DEFINED, MASK_READY, REFINING}

can_segment(state) == state \in {ROI_DEFINED, MASK_READY}

can_refine(state) == state = MASK_READY

\* saving allowed again while a save is running
can_save_while_saving(state) == state \in {MASK_READY, SAVING}

can_save(state) == state = MASK_READY

(***************************************************************************)
(* The record of one call on the gate.                                     *)
(***************************************************************************)
Call(op, arg, outcome, invoked) ==
  [op |-> op, arg |-> arg, outcome |-> outcome, invoked |-> invoked]

\* UIStateManager.__init__, and the widgets as Qt created them or as the
\* window set them before registering
GateInit ==
  /\ current_state = INITIAL
  /\ widgets = NoWidgets
  /\ state_callbacks = [s \in {} |-> 1]
  /\ enabled \in {AllEnabled, AllDisabled}
  /\ lastCall = Call("__init__", "", "returned", <<>>)

\* UIStateManager.register_widgets
register_widgets(d) ==
  /\ widgets' = d
  /\ lastCall' = Call("register_widgets", "", "returned", <<>>)
  /\ UNCHANGED <<current_state, state_callbacks, enabled, roiVars, pluginVars>>

\* UIStateManager.register_state_callback
register_state_callback(state, callback) ==
  /\ Cardinality(DOMAIN state_callbacks \cup {state}) <= MaxRegistered
  /\ state_callbacks' =
       [s \in DOMAIN state_callbacks \cup {state} |->
          IF s = state THEN callback ELSE state_callbacks[s]]
  /\ lastCall' = Call("register_state_callback", "", "returned", <<>>)
  /\ UNCHANGED <<current_state, widgets, enabled, roiVars, pluginVars>>

\* transition_to without the early return on the current state
transition_to_no_early_return(new_state) ==
  IF ~HasValueAttr(new_state)
    THEN /\ lastCall' =
              Call("transition_to", new_state, "AttributeError", <<>>)
         /\ UNCHANGED <<current_state, widgets, state_callbacks, enabled, roiVars,
                        pluginVars>>
  ELSE /\ current_state' = new_state
       /\ enabled' = _apply_state(new_state, enabled, widgets)
       /\ lastCall' =
            Call("transition_to", new_state, "returned",
                 IF new_state \in DOMAIN state_callbacks
                   THEN <<state_callbacks[new_state]>>
                   ELSE <<>>)
       /\ UNCHANGED <<widgets, state_callbacks, roiVars, pluginVars>>

\* transition_to that looks the callback up under the state it leaves
transition_to_callback_of_old_state(new_state) ==
  IF new_state = current_state
    THEN /\ lastCall' = Call("transition_to", new_state, "returned", <<>>)
         /\ UNCHANGED <<current_state, widgets, state_callbacks, enabled, roiVars,
                        pluginVars>>
  ELSE IF ~HasValueAttr(new_state)
    THEN /\ lastCall' =
              Call("transition_to", new_state, "AttributeError", <<>>)
         /\ UNCHANGED <<current_state, widgets, state_callbacks, enabled, roiVars,
                        pluginVars>>
  ELSE /\ current_state' = new_state
       /\ enabled' = _apply_state(new_state, enabled, widgets)
       /\ lastCall' =
            Call("transition_to", new_state, "returned",
                 IF current_state \in DOMAIN state_callbacks
                   THEN <<state_callbacks[current_state]>>
                   ELSE <<>>)
       /\ UNCHANGED <<widgets, state_callbacks, roiVars, pluginVars>>

\* transition_to with a transition table: a busy state can only be left
\* for MASK_READY
transition_to_with_table(new_state) ==
  IF new_state = current_state
       \/ (current_state \in {SEGMENTING, REFINING, SAVING}
             /\ new_state # MASK_READY)
    THEN /\ lastCall' = Call("transition_to", new_state, "returned", <<>>)
         /\ UNCHANGED <<current_state, widgets, state_callbacks, enabled, roiVars,
                        pluginVars>>
  ELSE IF ~HasValueAttr(new_state)
    THEN /\ lastCall' =
              Call("transition_to", new_state, "AttributeError", <<>>)
         /\ UNCHANGED <<current_state, widgets, state_callbacks, enabled, roiVars,
                        pluginVars>>
  ELSE /\ current_state' = new_state
       /\ enabled' = _apply_state(new_state, enabled, widgets)
       /\ lastCall' =
            Call("transition_to", new_state, "returned",
                 IF new_state \in DOMAIN state_callbacks
                   THEN <<state_callbacks[new_state]>>
                   ELSE <<>>)
       /\ UNCHANGED <<widgets, state_callbacks, roiVars, pluginVars>>

(***************************************************************************)
(* UIStateManager.transition_to.  The callback is a function of the        *)
(* caller; the model records that it was invoked.                          *)
(***************************************************************************)
transition_to(new_state) ==
  IF new_state = current_state
    THEN \* early return
         /\ lastCall' = Call("transition_to", new_state, "returned", <<>>)
         /\ UNCHANGED <<current_state, widgets, state_callbacks, enabled, roiVars,
                        pluginVars>>
  ELSE IF ~HasValueAttr(new_state)
    THEN \* the print reads new_state.value before anything is assigned
         /\ lastCall' =
              Call("transition_to", new_state, "AttributeError", <<>>)
         /\ UNCHANGED <<current_state, widgets, state_callbacks, enabled, roiVars,
                        pluginVars>>
  ELSE /\ current_state' = new_state
       /\ enabled' = _apply_state(new_state, enabled, widgets)
       /\ lastCall' =
            Call("transition_to", new_state, "returned",
                 IF new_state \in DOMAIN state_callbacks
                   THEN <<state_callbacks[new_state]>>
                   ELSE <<>>)
       /\ UNCHANGED <<widgets, state_callbacks, roiVars, pluginVars>>

(***************************************************************************)
(* The gate driven by an arbitrary caller that passes UIState members.     *)
(***************************************************************************)
RegisterWidgets ==
  /\ \E d \in WidgetDicts : register_widgets(d)
  /\ UNCHANGED <<jobs, signals, heap, procCall, roiVars, pluginVars>>

RegisterStateCallback ==
  /\ \E s \in UIState, c \in Callbacks : register_state_callback(s, c)
  /\ UNCHANGED <<jobs, signals, heap, procCall, roiVars, pluginVars>>

TransitionTo ==
  /\ \E s \in UIState : transition_to(s)
  /\ UNCHANGED <<jobs, signals, heap, procCall, roiVars, pluginVars>>

\* a call whose argument is not a member of UIState
TransitionToNonMember ==
  /\ \E x \in NonMembers : transition_to(x)
  /\ UNCHANGED <<jobs, signals, heap, procCall, roiVars, pluginVars>>

NoJobs ==
  [j \in 1 .. MaxJobs |->
     [kind |-> "none", pc |-> "unstarted",
      params |-> [dilation_iter |-> 0, closing_size |-> 1,
                  fill_holes |-> FALSE, total_slices |-> 0],
      z |-> 0]]

\* no array allocated and no processing function called yet
NoProcCall ==
  [fn |-> "none", n |-> 0, after |-> "none", mask |-> 0, params |-> <<>>,
   params_ref |-> 0, mask2 |-> 0,
   prior |-> [outcome |-> "none", mask |-> <<>>, stats |-> <<>>,
              params |-> <<>>],
   spacing |-> <<>>, pc |-> "none", cur |-> 0, base_count |-> 0,
   steps |-> <<>>, outcome |-> "none", result |-> 0, stats |-> <<>>]

Init ==
  /\ GateInit
  /\ RoiInit
  /\ PluginInit
  /\ jobs = NoJobs
  /\ signals = <<>>
  /\ heap = <<>>
  /\ procCall = NoProcCall

Next ==
  \/ RegisterWidgets
  \/ RegisterStateCallback
  \/ TransitionTo

Spec == Init /\ [][Next]_vars

NextUntyped ==
  \/ RegisterWidgets
  \/ RegisterStateCallback
  \/ TransitionTo
  \/ TransitionToNonMember

SpecUntyped == Init /\ [][NextUntyped]_vars

(***************************************************************************)
(* The worker threads of gui/workers.py.  A worker emits Qt signals; a     *)
(* signal emitted in the worker thread is queued and its slot runs later   *)
(* in the UI thread.  The arrays a worker computes on are not part of this *)
(* model: a step is the code up to and including its next emit.            *)
(***************************************************************************)
Signal(sig, j, pct) == [sig |-> sig, job |-> j, pct |-> pct]

NoParams ==
  [dilation_iter |-> 0, closing_size |-> 1, fill_holes |-> FALSE,
   total_slices |-> 0]

\* params of a refinement and mask.shape[0]
RefineParams ==
  [dilation_iter : {0, 1}, closing_size : {1, 3}, fill_holes : BOOLEAN,
   total_slices : SliceCounts]

Job(kind, pc, params, z) ==
  [kind |-> kind, pc |-> pc, params |-> params, z |-> z]

InFlight(j) == jobs[j].pc \notin {"unstarted", "done"}

JobsInFlight == {j \in DOMAIN jobs : InFlight(j)}

Emit(sigs) == signals' = signals \o sigs

GoTo(j, pc) == jobs' = [jobs EXCEPT ![j].pc = pc]

\* an exception that can also be raised after progress 100 was emitted
RaiseInRefinementAfterReady(j) ==
  /\ jobs[j].kind = "refinement"
  /\ jobs[j].pc \in {"stage1", "stage2", "stage3", "stage4", "final", "stats",
                     "finish"}
  /\ Emit(<<Signal("error", j, 0)>>)
  /\ GoTo(j, "done")
  /\ UNCHANGED <<gateVars, heap, procCall, roiVars, pluginVars>>

\* except Exception as e: ... self.error.emit(error_msg)
RaiseInRefinement(j) ==
  /\ jobs[j].kind = "refinement"
  /\ jobs[j].pc \in {"stage1", "stage2", "stage3", "stage4", "final", "stats"}
  /\ Emit(<<Signal("error", j, 0)>>)
  /\ GoTo(j, "done")
  /\ UNCHANGED <<gateVars, heap, procCall, roiVars, pluginVars>>

\* MaskRefinementWorker.run: self.progress.emit(5, ...)
RefinementRun(j) ==
  /\ jobs[j].kind = "refinement"
  /\ jobs[j].pc = "run"
  /\ Emit(<<Signal("progress", j, 5)>>)
  /\ GoTo(j, "stage1")
  /\ UNCHANGED <<gateVars, heap, procCall, roiVars, pluginVars>>

\* _refine_with_progress: copy of the mask, then step 1
RefinementDilation(j) ==
  /\ jobs[j].kind = "refinement"
  /\ jobs[j].pc = "stage1"
  /\ IF jobs[j].params.dilation_iter > 0
       THEN Emit(<<Signal("progress", j, 20)>>)
       ELSE UNCHANGED signals
  /\ GoTo(j, "stage2")
  /\ UNCHANGED <<gateVars, heap, procCall, roiVars, pluginVars>>

\* _refine_with_progress: step 2
RefinementClosing(j) ==
  /\ jobs[j].kind = "refinement"
  /\ jobs[j].pc = "stage2"
  /\ IF jobs[j].params.closing_size > 1
       THEN Emit(<<Signal("progress", j, 40)>>)
       ELSE UNCHANGED signals
  /\ GoTo(j, "stage3")
  /\ UNCHANGED <<gateVars, heap, procCall, roiVars, pluginVars>>

\* _refine_with_progress: step 3
RefinementNoise(j) ==
  /\ jobs[j].kind = "refinement"
  /\ jobs[j].pc = "stage3"
  /\ Emit(<<Signal("progress", j, 60)>>)
  /\ GoTo(j, "stage4")
  /\ UNCHANGED <<gateVars, heap, procCall, roiVars, pluginVars>>

\* the hole filling given the whole 20% the comment of step 4 names
HolesProgressTwentyPercent(z, total_slices) ==
  80 + ((z * 20) \div total_slices)

\* 80 + int((z / total_slices) * 15)
HolesProgress(z, total_slices) == 80 + ((z * 15) \div total_slices)

\* _refine_with_progress: step 4, one iteration of the loop over z, or the
\* end of the loop
RefinementHoles(j) ==
  /\ jobs[j].kind = "refinement"
  /\ jobs[j].pc = "stage4"
  /\ LET z == jobs[j].z
         total_slices == jobs[j].params.total_slices
     IN  IF jobs[j].params.fill_holes /\ z < total_slices
           THEN /\ IF z % 10 = 0
                     THEN Emit(<<Signal("progress", j,
                                        HolesProgress(z, total_slices))>>)
                     ELSE UNCHANGED signals
                /\ jobs' = [jobs EXCEPT ![j].z = z + 1]
           ELSE /\ UNCHANGED signals
                /\ GoTo(j, "final")
  /\ UNCHANGED <<gateVars, heap, procCall, roiVars, pluginVars>>

\* _refine_with_progress: self.progress.emit(95, ...)
RefinementFinal(j) ==
  /\ jobs[j].kind = "refinement"
  /\ jobs[j].pc = "final"
  /\ Emit(<<Signal("progress", j, 95)>>)
  /\ GoTo(j, "stats")
  /\ UNCHANGED <<gateVars, heap, procCall, roiVars, pluginVars>>

\* the statistics, then in run: self.progress.emit(100, ...)
RefinementReady(j) ==
  /\ jobs[j].kind = "refinement"
  /\ jobs[j].pc = "stats"
  /\ Emit(<<Signal("progress", j, 100)>>)
  /\ GoTo(j, "finish")
  /\ UNCHANGED <<gateVars, heap, procCall, roiVars, pluginVars>>

\* run: self.finished.emit(refined_mask, stats)
RefinementFinished(j) ==
  /\ jobs[j].kind = "refinement"
  /\ jobs[j].pc = "finish"
  /\ Emit(<<Signal("finished", j, 0)>>)
  /\ GoTo(j, "done")
  /\ UNCHANGED <<gateVars, heap, procCall, roiVars, pluginVars>>

\* SegmentationWorker.run: three log lines and self.progress.emit(5, ...)
SegmentationRun(j) ==
  /\ jobs[j].kind = "segmentation"
  /\ jobs[j].pc = "run"
  /\ Emit(<<Signal("log", j, 0), Signal("log", j, 0), Signal("log", j, 0),
            Signal("progress", j, 5)>>)
  /\ GoTo(j, "segment")
  /\ UNCHANGED <<gateVars, heap, procCall, roiVars, pluginVars>>

\* self.model.segment(...) calls _progress_callback(percentage, message);
\* z counts the calls
SegmentationProgress(j) ==
  /\ jobs[j].kind = "segmentation"
  /\ jobs[j].pc = "segment"
  /\ jobs[j].z < MaxModelProgress
  /\ \E pct \in ModelProgress : Emit(<<Signal("progress", j, pct)>>)
  /\ jobs' = [jobs EXCEPT ![j].z = jobs[j].z + 1]
  /\ UNCHANGED <<gateVars, heap, procCall, roiVars, pluginVars>>

\* self.model.segment(...) returns: two log lines and finished
SegmentationFinished(j) ==
  /\ jobs[j].kind = "segmentation"
  /\ jobs[j].pc = "segment"
  /\ Emit(<<Signal("log", j, 0), Signal("log", j, 0),
            Signal("finished", j, 0)>>)
  /\ GoTo(j, "done")
  /\ UNCHANGED <<gateVars, heap, procCall, roiVars, pluginVars>>

\* the except clause that only logs
RaiseInSegmentationLogged(j) ==
  /\ jobs[j].kind = "segmentation"
  /\ jobs[j].pc = "segment"
  /\ Emit(<<Signal("log", j, 0)>>)
  /\ GoTo(j, "done")
  /\ UNCHANGED <<gateVars, heap, procCall, roiVars, pluginVars>>

\* self.model.segment(...) raises: a log line and error
RaiseInSegmentation(j) ==
  /\ jobs[j].kind = "segmentation"
  /\ jobs[j].pc = "segment"
  /\ Emit(<<Signal("log", j, 0), Signal("error", j, 0)>>)
  /\ GoTo(j, "done")
  /\ UNCHANGED <<gateVars, heap, procCall, roiVars, pluginVars>>

(***************************************************************************)
(* The window that owns the gate and the workers.  It starts a job only    *)
(* when the matching predicate is true, enters SEGMENTING / REFINING       *)
(* before it starts the job and leaves that state only in the slot of the  *)
(* job's finished or error signal.                                         *)
(***************************************************************************)
FreeSlots == {j \in DOMAIN jobs : jobs[j].pc = "unstarted"}

FirstFreeSlot == CHOOSE j \in FreeSlots : \A k \in FreeSlots : j <= k

OnWindowCreated ==
  /\ lastCall.op = "__init__"
  /\ register_widgets(AllWidgets)
  /\ UNCHANGED <<jobs, signals, heap, procCall, roiVars, pluginVars>>

OnSegmentRequested ==
  /\ lastCall.op # "__init__"
  /\ can_segment(current_state)
  /\ FreeSlots # {}
  /\ transition_to(SEGMENTING)
  /\ jobs' = [jobs EXCEPT
                ![FirstFreeSlot] = Job("segmentation", "run", NoParams, 0)]
  /\ UNCHANGED <<signals, heap, procCall, roiVars, pluginVars>>

OnRefineRequested ==
  /\ lastCall.op # "__init__"
  /\ can_refine(current_state)
  /\ FreeSlots # {}
  /\ transition_to(REFINING)
  /\ \E params \in RefineParams :
       jobs' = [jobs EXCEPT
                  ![FirstFreeSlot] = Job("refinement", "run", params, 0)]
  /\ UNCHANGED <<signals, heap, procCall, roiVars, pluginVars>>

\* any other request of the user: loading, drawing or resetting a ROI,
\* saving
OnOtherRequest ==
  /\ lastCall.op # "__init__"
  /\ current_state \notin {SEGMENTING, REFINING}
  /\ \E s \in UIState \ {SEGMENTING, REFINING} : transition_to(s)
  /\ UNCHANGED <<jobs, signals, heap, procCall, roiVars, pluginVars>>

\* the slot of a progress or log signal
OnProgress ==
  /\ signals # <<>>
  /\ Head(signals).sig \in {"progress", "log"}
  /\ signals' = Tail(signals)
  /\ UNCHANGED <<jobs, current_state, widgets, state_callbacks, enabled,
                 lastCall, heap, procCall, roiVars, pluginVars>>

\* the slot of a finished signal
OnFinished ==
  /\ signals # <<>>
  /\ Head(signals).sig = "finished"
  /\ signals' = Tail(signals)
  /\ jobs' = [jobs EXCEPT ![Head(signals).job] =
                Job("none", "unstarted", NoParams, 0)]
  /\ transition_to(MASK_READY)
  /\ UNCHANGED <<heap, procCall, roiVars, pluginVars>>

\* the slot of an error signal
OnError ==
  /\ signals # <<>>
  /\ Head(signals).sig = "error"
  /\ signals' = Tail(signals)
  /\ jobs' = [jobs EXCEPT ![Head(signals).job] =
                Job("none", "unstarted", NoParams, 0)]
  /\ \E s \in UIState \ {SEGMENTING, REFINING} : transition_to(s)
  /\ UNCHANGED <<heap, procCall, roiVars, pluginVars>>

SessionNext ==
  \/ OnWindowCreated
  \/ OnSegmentRequested
  \/ OnRefineRequested
  \/ OnOtherRequest
  \/ OnProgress
  \/ OnFinished
  \/ OnError
  \/ \E j \in DOMAIN jobs : RefinementRun(j)
  \/ \E j \in DOMAIN jobs : RefinementDilation(j)
  \/ \E j \in DOMAIN jobs : RefinementClosing(j)
  \/ \E j \in DOMAIN jobs : RefinementNoise(j)
  \/ \E j \in DOMAIN jobs : RefinementHoles(j)
  \/ \E j \in DOMAIN jobs : RefinementFinal(j)
  \/ \E j \in DOMAIN jobs : RefinementReady(j)
  \/ \E j \in DOMAIN jobs : RefinementFinished(j)
  \/ \E j \in DOMAIN jobs : RaiseInRefinement(j)
  \/ \E j \in DOMAIN jobs : SegmentationRun(j)
  \/ \E j \in DOMAIN jobs : SegmentationProgress(j)
  \/ \E j \in DOMAIN jobs : SegmentationFinished(j)
  \/ \E j \in DOMAIN jobs : RaiseInSegmentation(j)

SpecSession == Init /\ [][SessionNext]_vars

\* C1: while the gate is in SEGMENTING, REFINING or SAVING neither
\* can_segment() nor can_refine() is true, and under a window that starts
\* a job only when the matching predicate is true at most one job is in
\* flight at any time.
C1_SingleJobInFlight ==
  /\ current_state \in {SEGMENTING, REFINING, SAVING}
       => (~can_segment(current_state) /\ ~can_refine(current_state))
  /\ Cardinality(JobsInFlight) <= 1

\* a refinement is running, its events are queued behind those of an
\* earlier job's slot, and the gate refuses both requests
C1_Witness ==
  /\ current_state = REFINING
  /\ \E j \in JobsInFlight : jobs[j].kind = "refinement"
  /\ signals # <<>>
  /\ ~can_segment(current_state)
  /\ ~can_refine(current_state)

(***************************************************************************)
(* One run of a MaskRefinementWorker, with nothing consuming its signals:  *)
(* signals is then the sequence of events of the run, in emission order.   *)
(***************************************************************************)
\* params of the run and mask.shape[0], every slice count up to MaxSlices
RunParams ==
  [dilation_iter : {0, 1}, closing_size : {1, 3}, fill_holes : BOOLEAN,
   total_slices : 0 .. MaxSlices]

\* worker.start()
StartRefinement ==
  /\ jobs = NoJobs
  /\ signals = <<>>
  /\ \E params \in RunParams :
       jobs' = [jobs EXCEPT ![1] = Job("refinement", "run", params, 0)]
  /\ UNCHANGED <<gateVars, signals, heap, procCall, roiVars, pluginVars>>

RunNext ==
  \/ StartRefinement
  \/ \E j \in DOMAIN jobs : RefinementRun(j)
  \/ \E j \in DOMAIN jobs : RefinementDilation(j)
  \/ \E j \in DOMAIN jobs : RefinementClosing(j)
  \/ \E j \in DOMAIN jobs : RefinementNoise(j)
  \/ \E j \in DOMAIN jobs : RefinementHoles(j)
  \/ \E j \in DOMAIN jobs : RefinementFinal(j)
  \/ \E j \in DOMAIN jobs : RefinementReady(j)
  \/ \E j \in DOMAIN jobs : RefinementFinished(j)
  \/ \E j \in DOMAIN jobs : RaiseInRefinement(j)

SpecRun == Init /\ [][RunNext]_vars

IsProgress(e) == e.sig = "progress"

\* the progress events of the run, in emission order
ProgressEvents == SelectSeq(signals, IsProgress)

\* the stage a progress event of the refinement belongs to; each message
\* of _refine_with_progress is emitted with its own percentage
StageRank(pct) ==
  CASE pct = 5 -> 0
    [] pct = 20 -> 1
    [] pct = 40 -> 2
    [] pct = 60 -> 3
    [] pct >= 80 /\ pct < 95 -> 4
    [] pct = 95 -> 5
    [] pct = 100 -> 6
    [] OTHER -> 7

\* C14: during one refinement run the progress percentages are
\* non-decreasing and within [0,100], for every parameter combination and
\* slice count, and the stage events come in stage order: dilation, closing,
\* noise removal, hole filling.
C14_ProgressMonotone ==
  LET P == ProgressEvents
  IN  /\ \A i \in DOMAIN P : P[i].pct >= 0 /\ P[i].pct <= 100
      /\ \A i, k \in DOMAIN P :
           i < k => /\ P[i].pct <= P[k].pct
                    /\ StageRank(P[i].pct) <= StageRank(P[k].pct)
      /\ \A i \in DOMAIN P : StageRank(P[i].pct) <= 6

\* a finished run with every stage enabled and two hole-filling events
C14_Witness ==
  LET P == ProgressEvents
  IN  /\ jobs[1].pc = "done"
      /\ jobs[1].params.total_slices > 10
      /\ \E i \in DOMAIN P : P[i].pct = 20
      /\ \E i \in DOMAIN P : P[i].pct = 40
      /\ \E i \in DOMAIN P : P[i].pct > 80 /\ P[i].pct < 95
      /\ signals[Len(signals)].sig = "finished"

\* C15: in a run that completes, 100 is reported exactly once, as the last
\* progress event and right before finished; in a run that fails, 100 is
\* never reported.
C15_HundredOnceAtCompletion ==
  LET P == ProgressEvents
      Hundreds == {i \in DOMAIN P : P[i].pct = 100}
  IN  /\ \A k \in DOMAIN signals :
           signals[k].sig = "finished"
             => /\ k = Len(signals)
                /\ k > 1
                /\ signals[k - 1] = Signal("progress", signals[k].job, 100)
                /\ Hundreds = {Len(P)}
      /\ (\E k \in DOMAIN signals : signals[k].sig = "error")
           => Hundreds = {}
      /\ Cardinality(Hundreds) <= 1

\* a run that completed: 100 then finished
C15_Witness ==
  /\ jobs[1].pc = "done"
  /\ signals[Len(signals)].sig = "finished"
  /\ signals[Len(signals) - 1].pct = 100

(***************************************************************************)
(* core/processing.py.  An ndarray is a buffer of the heap; a name of the  *)
(* program refers to it by its index.  A mask buffer holds its shape, the  *)
(* set of its non-zero voxels <<z, y, x>> (masks are 0/1) and its dtype; a *)
(* volume buffer holds its shape and the HU value of each voxel.           *)
(***************************************************************************)
Grid(shape) == (0 .. shape[1] - 1) \X (0 .. shape[2] - 1) \X (0 .. shape[3] - 1)

NdArray(shape, vox, dtype) == [shape |-> shape, vox |-> vox, dtype |-> dtype]

\* a = np.<allocation>: the heap with the new buffer; its reference is the
\* new length
Alloc(h, a) == Append(h, a)

\* int(np.sum(mask)) of a 0/1 mask
np_sum(a) == Cardinality(a.vox)

\* np.any(mask[z])
SliceOf(vox, z) == {v \in vox : v[1] = z}

\* the default structuring element of scipy.ndimage: generate_binary_structure
\* (rank, 1), the voxel and its face neighbours
Cross(v) ==
  {v, <<v[1] - 1, v[2], v[3]>>, <<v[1] + 1, v[2], v[3]>>,
      <<v[1], v[2] - 1, v[3]>>, <<v[1], v[2] + 1, v[3]>>,
      <<v[1], v[2], v[3] - 1>>, <<v[1], v[2], v[3] + 1>>}

\* np.ones((size, size, size)) centred on v, for odd size
Cube(v, size) ==
  LET r == (size - 1) \div 2
  IN  (v[1] - r .. v[1] + r) \X (v[2] - r .. v[2] + r) \X (v[3] - r .. v[3] + r)

InGrid(v, shape) ==
  /\ v[1] >= 0 /\ v[1] < shape[1]
  /\ v[2] >= 0 /\ v[2] < shape[2]
  /\ v[3] >= 0 /\ v[3] < shape[3]

\* ndimage.binary_dilation(mask, iterations=iterations): default structure,
\* border_value 0
RECURSIVE binary_dilation(_, _, _)
binary_dilation(vox, shape, iterations) ==
  IF iterations = 0 THEN vox
  ELSE binary_dilation(
         {n \in UNION {Cross(v) : v \in vox} : InGrid(n, shape)},
         shape, iterations - 1)

\* ndimage.binary_closing(mask, structure=np.ones((size, size, size))): one
\* dilation, then one erosion, both with border_value 0: a voxel whose
\* cube leaves the grid is eroded
binary_closing(vox, shape, size) ==
  LET dilated == {n \in UNION {Cube(v, size) : v \in vox} : InGrid(n, shape)}
  IN  {v \in dilated : \A n \in Cube(v, size) : n \in dilated}

\* first voxel of a non-empty set in C order (z, then y, then x)
FirstVoxel(vox) ==
  LET MinOf(S) == CHOOSE m \in S : \A n \in S : m <= n
      z == MinOf({v[1] : v \in vox})
      y == MinOf({v[2] : v \in {w \in vox : w[1] = z}})
      x == MinOf({v[3] : v \in {w \in vox : w[1] = z /\ w[2] = y}})
  IN  <<z, y, x>>

\* the voxels of vox connected to the frontier through face neighbours
RECURSIVE Flood(_, _, _)
Flood(frontier, seen, vox) ==
  IF frontier = {} THEN seen
  ELSE LET next == {n \in UNION {Cross(v) : v \in frontier} :
                      n \in vox /\ n \notin seen}
       IN  Flood(next, seen \cup next, vox)

\* labeled, num_features = ndimage.label(mask): the components under the
\* default (face) connectivity, numbered in C order of their first voxel
RECURSIVE ndimage_label(_)
ndimage_label(vox) ==
  IF vox = {} THEN <<>>
  ELSE LET first == FirstVoxel(vox)
           comp == Flood({first}, {first}, vox)
       IN  <<comp>> \o ndimage_label(vox \ comp)

\* ndimage.binary_fill_holes(mask[z]) of one slice: the slice's background
\* that is not connected, through face neighbours within the slice, to the
\* outside of the slice is filled
binary_fill_holes(vox, shape, z) ==
  LET plane == {v \in Grid(shape) : v[1] = z}
      background == plane \ vox
      edge == {v \in background :
                 \/ v[2] = 0 \/ v[2] = shape[2] - 1
                 \/ v[3] = 0 \/ v[3] = shape[3] - 1}
      outside == Flood(edge, edge, background)
  IN  (vox \cap plane) \cup (background \ outside)

\* what a function of the module hands back: the heap after it, how it ended,
\* the buffer it returns and its statistics
Returned(h, mask, stats) ==
  [heap |-> h, outcome |-> "returned", mask |-> mask, stats |-> stats]

\* an exception leaves the function: nothing is returned
Raised(h, exception) ==
  [heap |-> h, outcome |-> exception, mask |-> 0, stats |-> <<>>]

\* (volume >= hu_min) & (volume <= hu_max)
lung_tissue(volume, hu_min, hu_max) ==
  {v \in Grid(volume.shape) : volume.hu[v] >= hu_min /\ volume.hu[v] <= hu_max}

\* numpy broadcasting of two shapes of rank 3
Broadcastable(s, t) == \A i \in 1 .. 3 : s[i] = t[i] \/ s[i] = 1 \/ t[i] = 1

BroadcastShape(s, t) == [i \in 1 .. 3 |-> IF s[i] = 1 THEN t[i] ELSE s[i]]

\* the voxel of an operand of shape s that is read for voxel v of the result
BroadcastIndex(v, s) == [i \in 1 .. 3 |-> IF s[i] = 1 THEN 0 ELSE v[i]]

\* def _apply_hu_dilation(mask, volume, hu_min, hu_max, iterations)
_apply_hu_dilation(h, mask, volume, hu_min, hu_max, iterations) ==
  LET count_before == np_sum(h[mask])
      tissue == lung_tissue(h[volume], hu_min, hu_max)
      dilated == binary_dilation(h[mask].vox, h[mask].shape, iterations)
      shape == BroadcastShape(h[mask].shape, h[volume].shape)
      \* mask = dilated & lung_tissue
      anded == NdArray(shape,
                 {v \in Grid(shape) :
                    /\ BroadcastIndex(v, h[mask].shape) \in dilated
                    /\ BroadcastIndex(v, h[volume].shape) \in tissue},
                 "uint8")
      count_after == np_sum(anded)
  IN  IF ~Broadcastable(h[mask].shape, h[volume].shape)
      THEN Raised(h, "ValueError")
      ELSE Returned(Alloc(h, anded), Len(h) + 1,
             [voxels_before |-> count_before,
              voxels_after |-> count_after,
              voxels_added |-> count_after - count_before])

\* def _apply_morphological_closing(mask, size)
_apply_morphological_closing(h, mask, size) ==
  LET count_before == np_sum(h[mask])
      closed == NdArray(h[mask].shape,
                  binary_closing(h[mask].vox, h[mask].shape, size), "bool")
      count_after == np_sum(closed)
  IN  Returned(Alloc(h, closed), Len(h) + 1,
        [voxels_before |-> count_before,
         voxels_after |-> count_after,
         voxels_added |-> count_after - count_before])

\* np.max(sizes)
MaxSize(sizes) ==
  CHOOSE m \in {sizes[i] : i \in DOMAIN sizes} :
    \A i \in DOMAIN sizes : sizes[i] <= m

\* a component as large as the threshold survives
AtOrAboveThreshold(size, max_size) == 100 * size >= max_size

\* a threshold of 2% of the largest component
AboveTwoPercent(size, max_size) == 100 * size > 2 * max_size

\* the comparison the other way round: the small components survive
BelowThreshold(size, max_size) == 100 * size < max_size

\* size > threshold with threshold = max_size * 0.01, which for the sizes
\* of a mask is 100 * size > max_size
AboveThreshold(size, max_size) == 100 * size > max_size

\* no early return for a mask without components: np.max of no sizes raises
_remove_small_components_without_empty_case(h, mask) ==
  LET count_before == np_sum(h[mask])
      labeled == ndimage_label(h[mask].vox)
      num_features == Len(labeled)
      sizes == [i \in DOMAIN labeled |-> Cardinality(labeled[i])]
      max_size == MaxSize(sizes)
      kept == {i \in DOMAIN labeled : AboveThreshold(sizes[i], max_size)}
      mask_cleaned == NdArray(h[mask].shape,
                        UNION {labeled[i] : i \in kept}, h[mask].dtype)
      components_kept == Cardinality(kept)
      count_after == np_sum(mask_cleaned)
  IN  IF num_features = 0
      THEN Raised(h, "ValueError")
      ELSE Returned(Alloc(h, mask_cleaned), Len(h) + 1,
             [voxels_before |-> count_before,
              voxels_after |-> count_after,
              voxels_removed |-> count_before - count_after,
              components_total |-> num_features,
              components_kept |-> components_kept,
              components_removed |-> num_features - components_kept])

\* def _remove_small_components(mask, threshold_ratio=0.01)
_remove_small_components(h, mask) ==
  LET count_before == np_sum(h[mask])
      labeled == ndimage_label(h[mask].vox)
      num_features == Len(labeled)
      sizes == [i \in DOMAIN labeled |-> Cardinality(labeled[i])]
      max_size == MaxSize(sizes)
      kept == {i \in DOMAIN labeled : AboveThreshold(sizes[i], max_size)}
      mask_cleaned == NdArray(h[mask].shape,
                        UNION {labeled[i] : i \in kept}, h[mask].dtype)
      components_kept == Cardinality(kept)
      count_after == np_sum(mask_cleaned)
  IN  IF num_features = 0
      THEN Returned(h, mask,
             [voxels_before |-> count_before,
              voxels_after |-> 0,
              components_removed |-> 0])
      ELSE Returned(Alloc(h, mask_cleaned), Len(h) + 1,
             [voxels_before |-> count_before,
              voxels_after |-> count_after,
              voxels_removed |-> count_before - count_after,
              components_total |-> num_features,
              components_kept |-> components_kept,
              components_removed |-> num_features - components_kept])

\* the holes are filled in a copy and the array given is returned
_fill_holes_2d_of_a_copy(h, mask) ==
  LET count_before == np_sum(h[mask])
      total_slices == h[mask].shape[1]
      processed == {z \in 0 .. total_slices - 1 : SliceOf(h[mask].vox, z) # {}}
      filled == UNION {binary_fill_holes(h[mask].vox, h[mask].shape, z) :
                         z \in processed}
      copy == [h[mask] EXCEPT !.vox = filled]
      count_after == np_sum(copy)
  IN  Returned(Alloc(h, copy), mask,
        [voxels_before |-> count_before,
         voxels_after |-> count_after,
         voxels_added |-> count_after - count_before,
         slices_processed |-> Cardinality(processed)])

\* def _fill_holes_2d(mask): mask[z] = ... writes into the buffer it was given
_fill_holes_2d(h, mask) ==
  LET count_before == np_sum(h[mask])
      total_slices == h[mask].shape[1]
      processed == {z \in 0 .. total_slices - 1 : SliceOf(h[mask].vox, z) # {}}
      filled == UNION {binary_fill_holes(h[mask].vox, h[mask].shape, z) :
                         z \in processed}
      after == [h EXCEPT ![mask].vox = filled]
      count_after == np_sum(after[mask])
  IN  Returned(after, mask,
        [voxels_before |-> count_before,
         voxels_after |-> count_after,
         voxels_added |-> count_after - count_before,
         slices_processed |-> Cardinality(processed)])

\* a float that is a quotient of integers, kept exact
Ratio(num, den) == [num |-> num, den |-> den]

\* stats['steps'].append({'name': name, **step_stats})
StepEntry(name, step_stats) ==
  [k \in {"name"} \cup DOMAIN step_stats |->
     IF k = "name" THEN name ELSE step_stats[k]]

\* the dilation is run whatever dilation_iter is
DilationEnabledAlways(params) == TRUE

\* if params.get('dilation_iter', 0) > 0
DilationEnabled(params) == params.dilation_iter > 0

\* the closing is run whatever closing_size is
ClosingEnabledAlways(params) == TRUE

\* if params.get('closing_size', 1) > 1
ClosingEnabled(params) == params.closing_size > 1

\* if params.get('fill_holes', False)
FillHolesEnabled(params) == params.fill_holes

(***************************************************************************)
(* Callers of core/processing.py.  The caller holds a mask in buffer 1 and *)
(* a volume in buffer 2, calls refine_mask, the worker's method or a stage *)
(* function on them, and may hand what a stage returned to a next stage,   *)
(* as refine_mask does.  procCall is the call: the function, its           *)
(* arguments, the statement it has reached (pc), its local variable mask   *)
(* (cur), its statistics so far and, once it has ended, how it ended and   *)
(* what it returned.                                                       *)
(***************************************************************************)
\* the buffers the caller holds when it calls: its mask and its volume
Caller == [mask |-> 1, volume |-> 2]
BaseMask == Caller.mask
Volume == Caller.volume

RefineShape == <<4, 5, 8>>

Block == {v \in Grid(RefineShape) : v[3] <= 4}
BlockWithHole == Block \ {<<1, 2, 2>>}
BlockPlus == Block \cup {<<z, 0, 5>> : z \in 0 .. 3}
Ring == {<<0, y, x>> : y \in 0 .. 2, x \in 0 .. 2} \ {<<0, 1, 1>>}
Speck1 == {<<0, 4, 7>>}
Speck2 == {<<2, 0, 7>>, <<3, 0, 7>>}

\* the masks a call is made with: none, one or several components, of
\* sizes on both sides of 1% of the largest, with and without holes
Masks ==
  {NdArray(RefineShape, body \cup s1 \cup s2, "uint8") :
     body \in {{}, Block, BlockWithHole, BlockPlus, Ring},
     s1 \in {{}, Speck1}, s2 \in {{}, Speck2}}

\* volumes of the shape of the mask, of a shape that broadcasts with it and
\* of a shape that does not; lung tissue (-500 HU) up to x = 5, bone beyond
Volumes ==
  {[shape |-> shape,
    hu |-> [v \in Grid(shape) |-> IF v[3] <= 5 THEN -500 ELSE 100]] :
     shape \in {RefineShape, <<1, 5, 8>>, <<5, 5, 8>>}}

Spacings == {<<1, 1, 1>>}

ProcParams ==
  [hu_min : {-1000}, hu_max : {-300}, dilation_iter : {0, 1},
   closing_size : {1, 3}, fill_holes : BOOLEAN]

StageFunctions ==
  {"_apply_hu_dilation", "_apply_morphological_closing",
   "_remove_small_components", "_fill_holes_2d"}

RefineInit ==
  /\ GateInit
  /\ RoiInit
  /\ PluginInit
  /\ enabled = AllEnabled
  /\ jobs = NoJobs
  /\ signals = <<>>
  /\ \E mask \in Masks, volume \in Volumes : heap = <<mask, volume>>
  /\ procCall = NoProcCall

\* the call fn(mask, ...) has ended with r
Called(fn, mask, r) ==
  /\ heap' = r.heap
  /\ procCall' = [NoProcCall EXCEPT
                    !.fn = fn, !.n = procCall.n + 1, !.after = procCall.fn,
                    !.mask = mask, !.pc = "ended", !.outcome = r.outcome,
                    !.result = r.mask, !.stats = r.stats]
  /\ UNCHANGED <<gateVars, jobs, signals, roiVars, pluginVars>>

\* a stage function can be called on the caller's mask, or on what the
\* stage called before it returned
StageCallable ==
  \/ procCall.n = 0
  \/ /\ procCall.n < MaxCalls
     /\ procCall.fn \in StageFunctions
     /\ procCall.outcome = "returned"

StageMask == IF procCall.n = 0 THEN BaseMask ELSE procCall.result

CallApplyHuDilation ==
  /\ StageCallable
  /\ \E iterations \in {1} :
       \E r \in {_apply_hu_dilation(heap, StageMask, Volume, -1000, -300,
                                    iterations)} :
         Called("_apply_hu_dilation", StageMask, r)

CallApplyMorphologicalClosing ==
  /\ StageCallable
  /\ \E size \in {3} :
       \E r \in {_apply_morphological_closing(heap, StageMask, size)} :
         Called("_apply_morphological_closing", StageMask, r)

CallRemoveSmallComponents ==
  /\ StageCallable
  /\ \E r \in {_remove_small_components(heap, StageMask)} :
       Called("_remove_small_components", StageMask, r)

CallFillHoles2d ==
  /\ StageCallable
  /\ \E r \in {_fill_holes_2d(heap, StageMask)} :
       Called("_fill_holes_2d", StageMask, r)

\* a dict of the heap; refine gets its params as a reference to one
Dict(items) == [items |-> items]

\* the caller has built params; then mask = base_mask.copy();
\* base_count = int(np.sum(mask)); stats = {'base_count': base_count,
\* 'steps': []}
EnterRefine(fn) ==
  /\ procCall.n = 0
  /\ \E spacing \in Spacings, params \in ProcParams :
       /\ procCall' = [NoProcCall EXCEPT
                         !.fn = fn, !.n = 1, !.after = procCall.fn,
                         !.mask = BaseMask, !.params = params,
                         !.params_ref = Len(heap) + 1,
                         !.spacing = spacing, !.pc = "stage1",
                         !.cur = Len(heap) + 2,
                         !.base_count = np_sum(heap[BaseMask]),
                         !.outcome = "running"]
       /\ heap' = Alloc(Alloc(heap, Dict(params)), heap[BaseMask])
  /\ UNCHANGED <<gateVars, jobs, signals, roiVars, pluginVars>>

\* the stage at pc has ended with r: mask, step_stats = r, and refine_mask
\* appends {'name': name, **step_stats}; an exception of the stage leaves
\* the function
StageDone(fn, next, name, r) ==
  /\ heap' = r.heap
  /\ procCall' =
       IF r.outcome = "returned"
       THEN [procCall EXCEPT
               !.pc = next, !.cur = r.mask,
               !.steps = IF fn = "refine_mask"
                         THEN Append(@, StepEntry(name, r.stats)) ELSE @]
       ELSE [procCall EXCEPT !.pc = "ended", !.outcome = r.outcome]
  /\ UNCHANGED <<gateVars, jobs, signals, roiVars, pluginVars>>

\* the stage at pc is switched off
StageSkipped(next) ==
  /\ procCall' = [procCall EXCEPT !.pc = next]
  /\ UNCHANGED <<gateVars, jobs, signals, heap, roiVars, pluginVars>>

At(fn, pc) == procCall.fn = fn /\ procCall.pc = pc

\* the quotient computed without the test of base_count
improvement_percent_unguarded(final_count, base_count) ==
  Ratio((final_count - base_count) * 100, base_count)

\* improvement = ((final_count - base_count) / base_count * 100)
\*               if base_count > 0 else 0
improvement_percent(final_count, base_count) ==
  IF base_count > 0
  THEN Ratio((final_count - base_count) * 100, base_count)
  ELSE Ratio(0, 1)

\* volume_ml = final_count * np.prod(spacing) / 1000.0
volume_ml(final_count, spacing) ==
  Ratio(final_count * spacing[1] * spacing[2] * spacing[3], 1000)

\* 'params': params, the caller's dict itself
dict_alias(h, ref) == [heap |-> h, ref |-> ref]

\* params.copy(): a new dict with the same items
dict_copy(h, ref) == [heap |-> Alloc(h, h[ref]), ref |-> Len(h) + 1]

\* stats.update({'final_count': ..., 'improvement_percent': ...,
\*               'volume_ml': ..., 'params': ...})
FinalStats(final_count, params) ==
  [base_count |-> procCall.base_count,
   steps |-> procCall.steps,
   final_count |-> final_count,
   improvement_percent |->
     improvement_percent(final_count, procCall.base_count),
   volume_ml |-> volume_ml(final_count, procCall.spacing),
   params |-> params]

\* the result is stored in the caller's array, which is returned
RefineReturnIntoBase(fn) ==
  /\ At(fn, "final")
  /\ \E copied \in {dict_copy(heap, procCall.params_ref)} :
       /\ heap' = [copied.heap EXCEPT
                     ![procCall.mask] =
                        [heap[procCall.cur] EXCEPT !.dtype = "uint8"]]
       /\ procCall' = [procCall EXCEPT
            !.pc = "ended", !.outcome = "returned",
            !.result = procCall.mask,
            !.stats = FinalStats(np_sum(heap[procCall.cur]), copied.ref)]
  /\ UNCHANGED <<gateVars, jobs, signals, roiVars, pluginVars>>

\* final_count, improvement, volume_ml, stats.update(...) and
\* return mask.astype(np.uint8), stats
RefineReturn(fn) ==
  /\ At(fn, "final")
  /\ \E copied \in {dict_copy(heap, procCall.params_ref)} :
       /\ heap' = Alloc(copied.heap,
                        [heap[procCall.cur] EXCEPT !.dtype = "uint8"])
       /\ procCall' = [procCall EXCEPT
            !.pc = "ended", !.outcome = "returned",
            !.result = Len(copied.heap) + 1,
            !.stats = FinalStats(np_sum(heap[procCall.cur]), copied.ref)]
  /\ UNCHANGED <<gateVars, jobs, signals, roiVars, pluginVars>>

\* the caller changes a key of its params after the call has returned
CallerSetsParam ==
  /\ procCall.fn \in {"refine_mask", "_refine_with_progress"}
  /\ procCall.pc = "ended"
  /\ procCall.outcome = "returned"
  /\ heap[procCall.params_ref].items = procCall.params
  /\ heap' = [heap EXCEPT ![procCall.params_ref].items.fill_holes = ~@]
  /\ UNCHANGED <<gateVars, jobs, signals, procCall, roiVars, pluginVars>>

(* refine_mask, statement by statement *)
\* refined, stats = refine_mask(mask, volume, spacing, params)
CallRefineMask == EnterRefine("refine_mask")

RefineMaskDilation ==
  /\ At("refine_mask", "stage1")
  /\ IF DilationEnabled(procCall.params)
     THEN \E r \in {_apply_hu_dilation(heap, procCall.cur, Volume,
                      procCall.params.hu_min, procCall.params.hu_max,
                      procCall.params.dilation_iter)} :
            StageDone("refine_mask", "stage2", "HU Dilation", r)
     ELSE StageSkipped("stage2")

RefineMaskClosing ==
  /\ At("refine_mask", "stage2")
  /\ IF ClosingEnabled(procCall.params)
     THEN \E r \in {_apply_morphological_closing(heap, procCall.cur,
                      procCall.params.closing_size)} :
            StageDone("refine_mask", "stage3", "Morphological Closing", r)
     ELSE StageSkipped("stage3")

RefineMaskNoise ==
  /\ At("refine_mask", "stage3")
  /\ \E r \in {_remove_small_components(heap, procCall.cur)} :
       StageDone("refine_mask", "stage4", "Noise Removal", r)

RefineMaskHoles ==
  /\ At("refine_mask", "stage4")
  /\ IF FillHolesEnabled(procCall.params)
     THEN \E r \in {_fill_holes_2d(heap, procCall.cur)} :
            StageDone("refine_mask", "final", "Hole Filling", r)
     ELSE StageSkipped("final")

RefineMaskReturn == RefineReturn("refine_mask")

(* MaskRefinementWorker._refine_with_progress, its arrays: the method      *)
(* repeats the statements of the four stage functions on its own mask and  *)
(* appends nothing to stats['steps']                                       *)
CallRefineWithProgress == EnterRefine("_refine_with_progress")

WorkerDilation ==
  /\ At("_refine_with_progress", "stage1")
  /\ IF procCall.params.dilation_iter > 0
     THEN \E r \in {_apply_hu_dilation(heap, procCall.cur, Volume,
                      procCall.params.hu_min, procCall.params.hu_max,
                      procCall.params.dilation_iter)} :
            StageDone("_refine_with_progress", "stage2", "", r)
     ELSE StageSkipped("stage2")

WorkerClosing ==
  /\ At("_refine_with_progress", "stage2")
  /\ IF procCall.params.closing_size > 1
     THEN \E r \in {_apply_morphological_closing(heap, procCall.cur,
                      procCall.params.closing_size)} :
            StageDone("_refine_with_progress", "stage3", "", r)
     ELSE StageSkipped("stage3")

WorkerNoise ==
  /\ At("_refine_with_progress", "stage3")
  /\ \E r \in {_remove_small_components(heap, procCall.cur)} :
       StageDone("_refine_with_progress", "stage4", "", r)

WorkerHoles ==
  /\ At("_refine_with_progress", "stage4")
  /\ IF procCall.params.fill_holes
     THEN \E r \in {_fill_holes_2d(heap, procCall.cur)} :
            StageDone("_refine_with_progress", "final", "", r)
     ELSE StageSkipped("final")

WorkerReturn == RefineReturn("_refine_with_progress")

RefineNext ==
  \/ CallRefineMask
  \/ RefineMaskDilation
  \/ RefineMaskClosing
  \/ RefineMaskNoise
  \/ RefineMaskHoles
  \/ RefineMaskReturn
  \/ CallRefineWithProgress
  \/ WorkerDilation
  \/ WorkerClosing
  \/ WorkerNoise
  \/ WorkerHoles
  \/ WorkerReturn
  \/ CallApplyHuDilation
  \/ CallApplyMorphologicalClosing
  \/ CallRemoveSmallComponents
  \/ CallFillHoles2d
  \/ CallerSetsParam

SpecRefine == RefineInit /\ [][RefineNext]_vars

(***************************************************************************)
(* Properties of the refinement pipeline.                                  *)
(***************************************************************************)
\* the step is a whole call of the stage function fn
IsCallOf(fn) == procCall'.fn = fn /\ procCall'.n = procCall.n + 1

\* the last step entry of the running refine_mask
LastStep == procCall.steps[Len(procCall.steps)]

\* C20: when the mask entering stage 3 is entirely empty, stage 3 is a
\* no-op: the mask is returned unchanged (still empty), refine_mask still
\* records the Noise Removal entry, and the entry reports zero components
\* removed with voxels_before == voxels_after == 0.
C20_EmptyMaskIsNoOp ==
  [][/\ (IsCallOf("_remove_small_components")
           /\ heap[procCall'.mask].vox = {})
          => /\ procCall'.outcome = "returned"
             /\ heap'[procCall'.result].vox = {}
             /\ heap'[procCall'.mask] = heap[procCall'.mask]
             /\ procCall'.stats.components_removed = 0
             /\ procCall'.stats.voxels_before = 0
             /\ procCall'.stats.voxels_after = 0
     /\ (At("refine_mask", "stage3") /\ procCall'.pc # "stage3"
           /\ heap[procCall.cur].vox = {})
          => /\ procCall'.pc = "stage4"
             /\ heap'[procCall'.cur].vox = {}
             /\ Len(procCall'.steps) = Len(procCall.steps) + 1
             /\ LET entry == procCall'.steps[Len(procCall'.steps)]
                IN  /\ entry.name = "Noise Removal"
                    /\ entry.components_removed = 0
                    /\ entry.voxels_before = 0
                    /\ entry.voxels_after = 0
    ]_vars

\* refine_mask has run stage 3 on a mask that the HU dilation had emptied
C20_Witness ==
  /\ At("refine_mask", "stage4")
  /\ procCall.base_count > 0
  /\ heap[procCall.cur].vox = {}
  /\ LastStep.name = "Noise Removal"
  /\ Len(procCall.steps) = 2

RECURSIVE SumOf(_)
SumOf(sizes) == IF sizes = <<>> THEN 0 ELSE Head(sizes) + SumOf(Tail(sizes))

Dropped(sizes, max_size) == SelectSeq(sizes, LAMBDA size : 100 * size <= max_size)

\* C18: for every non-empty mask, stage 3 keeps a component iff its size is
\* strictly greater than max_size * 0.01; every component of maximal size
\* is kept, components_kept + components_removed == components_total, and
\* voxels_removed is the summed size of the dropped components.
C18_ThresholdRule ==
  (/\ procCall.fn = "_remove_small_components"
   /\ heap[procCall.mask].vox # {})
    => LET components == ndimage_label(heap[procCall.mask].vox)
           sizes == [i \in DOMAIN components |-> Cardinality(components[i])]
           max_size == MaxSize(sizes)
           out == heap[procCall.result].vox
           stats == procCall.stats
       IN  /\ procCall.outcome = "returned"
           /\ \A i \in DOMAIN components :
                /\ 100 * sizes[i] > max_size => components[i] \subseteq out
                /\ 100 * sizes[i] <= max_size => components[i] \cap out = {}
                /\ sizes[i] = max_size => components[i] \subseteq out
           /\ out \subseteq heap[procCall.mask].vox
           /\ stats.components_total = Len(components)
           /\ stats.components_kept + stats.components_removed
                = stats.components_total
           /\ stats.components_kept
                = Cardinality({i \in DOMAIN components :
                                 100 * sizes[i] > max_size})
           /\ stats.voxels_removed = SumOf(Dropped(sizes, max_size))

\* stage 3 has dropped a component and kept two
C18_Witness ==
  /\ procCall.fn = "_remove_small_components"
  /\ procCall.n = 1
  /\ procCall.stats.components_removed = 1
  /\ procCall.stats.components_kept = 2
  /\ procCall.stats.voxels_removed = 1

\* C17: small-component removal is idempotent: applied to its own output it
\* returns the same mask, and removes zero components and zero voxels.
C17_NoiseRemovalIdempotent ==
  [][(/\ procCall.fn = "_remove_small_components"
      /\ IsCallOf("_remove_small_components"))
       => /\ procCall'.mask = procCall.result
          /\ procCall'.outcome = "returned"
          /\ heap'[procCall'.result].vox = heap[procCall.result].vox
          /\ procCall'.stats.components_removed = 0
          /\ procCall'.stats.voxels_after = procCall'.stats.voxels_before
    ]_vars

\* stage 3 applied to the output of a stage 3 that had removed a component
C17_Witness ==
  /\ procCall.fn = "_remove_small_components"
  /\ procCall.after = "_remove_small_components"
  /\ heap[BaseMask].vox # heap[procCall.mask].vox
  /\ heap[procCall.mask].vox # {}
  /\ heap[procCall.result].vox = heap[procCall.mask].vox

\* refine_mask has returned
RefineMaskReturned ==
  /\ procCall.fn = "refine_mask"
  /\ procCall.pc = "ended"
  /\ procCall.outcome = "returned"

\* the names of the entries of the steps returned
StepNames == [i \in DOMAIN procCall.stats.steps |-> procCall.stats.steps[i].name]

\* C16: for all masks, refine with dilation_iter = 0, closing_size = 1 and
\* fill_holes = false still executes stage 3 (steps has exactly the one
\* Noise Removal entry) and yields final_count <= base_count, with the output
\* mask a subset of the input mask.
C16_AllDisabledOnlyRemoves ==
  (/\ procCall.fn = "refine_mask"
   /\ procCall.pc = "ended"
   /\ procCall.params.dilation_iter = 0
   /\ procCall.params.closing_size = 1
   /\ ~procCall.params.fill_holes)
    => /\ procCall.outcome = "returned"
       /\ StepNames = <<"Noise Removal">>
       /\ procCall.stats.base_count = Cardinality(heap[BaseMask].vox)
       /\ procCall.stats.final_count = Cardinality(heap[procCall.result].vox)
       /\ procCall.stats.final_count <= procCall.stats.base_count
       /\ heap[procCall.result].vox \subseteq heap[BaseMask].vox

\* refine_mask with every optional stage off has removed a small component
C16_Witness ==
  /\ RefineMaskReturned
  /\ procCall.params.dilation_iter = 0
  /\ procCall.params.closing_size = 1
  /\ ~procCall.params.fill_holes
  /\ procCall.stats.final_count < procCall.stats.base_count
  /\ procCall.stats.final_count > 0

\* C11: for every parameter combination the steps returned by refine_mask
\* list exactly the executed stages in the fixed order: HU Dilation iff
\* dilation_iter > 0, Morphological Closing iff closing_size > 1, Noise
\* Removal always, Hole Filling iff fill_holes, and no other entry.
C11_StepsAreExecutedStages ==
  RefineMaskReturned
    => StepNames =
         (IF procCall.params.dilation_iter > 0
            THEN <<"HU Dilation">> ELSE <<>>)
         \o (IF procCall.params.closing_size > 1
               THEN <<"Morphological Closing">> ELSE <<>>)
         \o <<"Noise Removal">>
         \o (IF procCall.params.fill_holes THEN <<"Hole Filling">> ELSE <<>>)

\* refine_mask has returned with all four stages executed
C11_Witness ==
  /\ RefineMaskReturned
  /\ Len(procCall.stats.steps) = 4
  /\ procCall.stats.final_count > 0

\* C12: refine never mutates the caller's input mask: whatever the mask and
\* the parameters (hole filling with dilation and closing off, an empty
\* mask), the array passed as base_mask has the same contents after every
\* statement of refine_mask and of the worker's _refine_with_progress, and
\* so after they return.
C12_BaseMaskNotMutated ==
  [][procCall'.fn \in {"refine_mask", "_refine_with_progress"}
       => heap'[BaseMask] = heap[BaseMask]]_vars

\* a refinement with only the hole filling on has filled a hole, in a buffer
\* of its own
C12_Witness ==
  /\ procCall.fn \in {"refine_mask", "_refine_with_progress"}
  /\ procCall.pc = "ended"
  /\ procCall.outcome = "returned"
  /\ procCall.params.dilation_iter = 0
  /\ procCall.params.closing_size = 1
  /\ procCall.params.fill_holes
  /\ procCall.stats.final_count > procCall.stats.base_count
  /\ heap[procCall.result].vox # heap[BaseMask].vox

\* C13: refine fails with ShapeMismatchError whenever mask.shape differs
\* from volume.shape, for every parameter combination (dilation_iter = 0
\* included), and returns no mask and no statistics.
C13_ShapeMismatchRejected ==
  (/\ procCall.fn \in {"refine_mask", "_refine_with_progress"}
   /\ procCall.pc = "ended"
   /\ heap[BaseMask].shape # heap[Volume].shape)
    => /\ procCall.outcome = "ShapeMismatchError"
       /\ procCall.result = 0
       /\ procCall.stats = <<>>

\* the names refine_mask is called under: the function and the worker's
\* method
RefineFunctions == {"refine_mask", "_refine_with_progress"}

\* a refinement has returned
RefineReturned ==
  /\ procCall.fn \in RefineFunctions
  /\ procCall.pc = "ended"
  /\ procCall.outcome = "returned"

\* C21: statistics never fail on an empty base mask: a refinement that
\* reaches its final statistics returns normally; with base_count == 0 its
\* improvement_percent is 0 (no division by zero), whatever final_count is,
\* and with base_count > 0 it is (final_count - base_count) / base_count * 100.
C21_ImprovementGuarded ==
  [][(procCall.fn \in RefineFunctions /\ procCall.pc = "final"
        /\ procCall' # procCall)
       => LET stats == procCall'.stats
              improvement == stats.improvement_percent
          IN  /\ procCall'.outcome = "returned"
              /\ stats.base_count = Cardinality(heap[BaseMask].vox)
              /\ stats.final_count = Cardinality(heap'[procCall'.result].vox)
              /\ improvement.den # 0
              /\ stats.base_count = 0 => improvement.num = 0
              /\ stats.base_count > 0
                   => improvement.num * stats.base_count
                        = (stats.final_count - stats.base_count) * 100
                            * improvement.den
    ]_vars

\* a refinement of an empty base mask has returned its statistics
C21_Witness ==
  /\ RefineReturned
  /\ procCall.stats.base_count = 0
  /\ procCall.stats.improvement_percent.num = 0
  /\ procCall.params.dilation_iter > 0
  /\ procCall.params.fill_holes

\* C22: the params recorded in the refinement result equal the parameters
\* passed in, refine does not modify the caller's params mapping, and the
\* recorded params are a snapshot: a key the caller changes after the call
\* does not change in the result.
C22_ParamsRoundTrip ==
  [][/\ procCall'.fn \in RefineFunctions
          => \* the result records the params passed in, an object of its own
             /\ (procCall'.pc = "ended" /\ procCall'.outcome = "returned")
                  => /\ heap'[procCall'.stats.params].items = procCall'.params
                     /\ procCall'.stats.params # procCall'.params_ref
     /\ (procCall'.fn \in RefineFunctions /\ procCall' # procCall)
          => \* a statement of refine leaves the caller's mapping as it was
             heap'[procCall'.params_ref].items = procCall'.params
    ]_vars

\* the caller has changed a key of its params after the call; the result
\* holds the value passed in
C22_Witness ==
  /\ RefineReturned
  /\ heap[procCall.params_ref].items # procCall.params
  /\ heap[procCall.stats.params].items = procCall.params
  /\ heap[procCall.stats.params].items.fill_holes
       # heap[procCall.params_ref].items.fill_holes

\* C23: copy-on-write per stage: each of the four stage functions leaves the
\* mask array it was given unchanged and returns a distinct buffer, so the
\* pre-stage mask is still available after the stage has produced its
\* output.
C23_StagesCopyOnWrite ==
  [][\A fn \in StageFunctions :
       (IsCallOf(fn) /\ procCall'.outcome = "returned")
         => /\ heap'[procCall'.mask] = heap[procCall'.mask]
            /\ procCall'.result # procCall'.mask
    ]_vars

\* |a - b|
AbsDiff(a, b) == IF a >= b THEN a - b ELSE b - a

\* the number of 6-neighbour steps between two voxels
Steps6(v, w) ==
  AbsDiff(v[1], w[1]) + AbsDiff(v[2], w[2]) + AbsDiff(v[3], w[3])

\* the step is stage 1 of a refinement with dilation_iter > 0, and the stage
\* has returned
IsHuDilationStep ==
  /\ procCall.fn \in RefineFunctions
  /\ procCall.pc = "stage1"
  /\ procCall.params.dilation_iter > 0
  /\ procCall'.pc = "stage2"

\* C30: after HU-gated dilation (dilation_iter > 0) the mask equals the
\* dilation of the input mask by dilation_iter iterations intersected with
\* the tissue field: every foreground voxel of the result has intensity in
\* [hu_min, hu_max], both bounds inclusive, and lies within dilation_iter
\* 6-neighbour steps of a voxel that was foreground in the input.
C30_HuGatedDilation ==
  [][IsHuDilationStep
       => LET input == heap[procCall.cur]
              result == heap'[procCall'.cur]
              volume == heap[Volume]
              params == procCall.params
          IN  /\ result.vox
                   = binary_dilation(input.vox, input.shape,
                                     params.dilation_iter)
                       \cap lung_tissue(volume, params.hu_min, params.hu_max)
              /\ \A v \in result.vox :
                   /\ v \in Grid(volume.shape)
                   /\ volume.hu[v] >= params.hu_min
                   /\ volume.hu[v] <= params.hu_max
                   /\ \E w \in input.vox :
                        Steps6(v, w) <= params.dilation_iter
    ]_vars

(***************************************************************************)
(* Stage 3 on masks with a component of 950 voxels and components of 20,   *)
(* 10, 9, 5 and 1 voxels beside it.                                        *)
(***************************************************************************)
ScenarioShape == <<10, 10, 12>>

Body950 ==
  {v \in Grid(ScenarioShape) : v[3] <= 8 \/ (v[3] = 9 /\ v[2] <= 4)}
Speck20 == {<<z, y, 11>> : z \in 0 .. 9, y \in 2 .. 3}
Speck10 == {<<z, 9, 11>> : z \in 0 .. 9}
Speck9 == {<<z, 7, 11>> : z \in 0 .. 8}
Speck5 == {<<z, 0, 11>> : z \in 0 .. 4}
Speck1of950 == {<<0, 5, 11>>}

ScenarioMasks ==
  {NdArray(ScenarioShape, body \cup s20 \cup s10 \cup s9 \cup s5 \cup s1,
           "uint8") :
     body \in {{}, Body950}, s20 \in {{}, Speck20}, s10 \in {{}, Speck10},
     s9 \in {{}, Speck9}, s5 \in {{}, Speck5}, s1 \in {{}, Speck1of950}}

ScenarioInit ==
  /\ GateInit
  /\ RoiInit
  /\ PluginInit
  /\ enabled = AllEnabled
  /\ jobs = NoJobs
  /\ signals = <<>>
  /\ \E mask \in ScenarioMasks : heap = <<mask>>
  /\ procCall = NoProcCall

ScenarioNext == CallRemoveSmallComponents

SpecScenario == ScenarioInit /\ [][ScenarioNext]_vars

\* stage 3 has been called on the caller's mask, whose voxels are vox
Stage3CalledOn(vox) ==
  /\ procCall.fn = "_remove_small_components"
  /\ procCall.n = 1
  /\ heap[BaseMask].vox = vox

\* C19 as stated: with components of sizes 950 and 10 stage 3 reports
\* components_kept == 2 and voxels_removed == 0; with sizes 950 and 9 it
\* removes the smaller component and reports voxels_removed == 10.
C19_ScenarioTen ==
  /\ Stage3CalledOn(Body950 \cup Speck10)
       => /\ procCall.stats.components_kept = 2
          /\ procCall.stats.voxels_removed = 0
  /\ Stage3CalledOn(Body950 \cup Speck9)
       => /\ heap[procCall.result].vox = Body950
          /\ procCall.stats.voxels_removed = 10

\* C19, amended: with components of sizes 950 and 10 stage 3 reports
\* components_kept == 2 and voxels_removed == 0; with sizes 950 and 9 it
\* removes the smaller component and reports voxels_removed == 9, the size
\* of the component removed.
C19_ScenarioNine ==
  /\ Cardinality(Body950) = 950
  /\ Cardinality(Speck10) = 10
  /\ Cardinality(Speck9) = 9
  /\ Stage3CalledOn(Body950 \cup Speck10)
       => /\ procCall.stats.components_total = 2
          /\ procCall.stats.components_kept = 2
          /\ procCall.stats.voxels_removed = 0
          /\ heap[procCall.result].vox = Body950 \cup Speck10
  /\ Stage3CalledOn(Body950 \cup Speck9)
       => /\ procCall.stats.components_total = 2
          /\ procCall.stats.components_kept = 1
          /\ procCall.stats.components_removed = 1
          /\ heap[procCall.result].vox = Body950
          /\ procCall.stats.voxels_removed = 9

\* stage 3 has removed the 9-voxel component beside the 950-voxel one
C19_Witness ==
  /\ Stage3CalledOn(Body950 \cup Speck9)
  /\ procCall.stats.components_removed = 1

(***************************************************************************)
(* Properties of the gate.                                                 *)
(***************************************************************************)
\* C2: in every reachable state can_load_dicom() is true if and only if the
\* current state is none of SEGMENTING, REFINING, SAVING.
C2_CanLoadDicom ==
  /\ current_state \in {SEGMENTING, REFINING, SAVING}
       => ~can_load_dicom(current_state)
  /\ current_state \notin {SEGMENTING, REFINING, SAVING}
       => can_load_dicom(current_state)

C2_Witness ==
  /\ lastCall.op = "transition_to"
  /\ current_state = SAVING
  /\ ~can_load_dicom(current_state)

\* C3: in every reachable state can_segment() is true if and only if the
\* current state is ROI_DEFINED or MASK_READY; it is false in INITIAL and
\* true right after transition_to(ROI_DEFINED).
C3_CanSegment ==
  /\ current_state \in {ROI_DEFINED, MASK_READY}
       => can_segment(current_state)
  /\ current_state \notin {ROI_DEFINED, MASK_READY}
       => ~can_segment(current_state)
  /\ lastCall.op = "__init__" => ~can_segment(current_state)
  /\ (lastCall.op = "transition_to" /\ lastCall.arg = ROI_DEFINED)
       => can_segment(current_state)

C3_Witness ==
  /\ lastCall.op = "transition_to"
  /\ lastCall.arg = ROI_DEFINED
  /\ current_state = ROI_DEFINED
  /\ can_segment(current_state)

\* C4: in every reachable state can_refine() and can_save() are both true
\* when the current state is MASK_READY and both false in every other state.
C4_CanRefineCanSave ==
  /\ current_state = MASK_READY
       => (can_refine(current_state) /\ can_save(current_state))
  /\ current_state # MASK_READY
       => (~can_refine(current_state) /\ ~can_save(current_state))

C4_Witness ==
  /\ lastCall.op = "transition_to"
  /\ current_state = MASK_READY
  /\ can_refine(current_state)
  /\ can_save(current_state)

\* C5: transition_to with the state the gate is already in changes nothing:
\* not the current state, not the enabled flag of any widget, and it invokes
\* no callback.
C5_SameStateIsNoOp ==
  [][(lastCall'.op = "transition_to" /\ lastCall'.arg = current_state)
       => /\ current_state' = current_state
          /\ enabled' = enabled
          /\ widgets' = widgets
          /\ state_callbacks' = state_callbacks
          /\ lastCall'.outcome = "returned"
          /\ lastCall'.invoked = <<>>]_vars

\* the last call was transition_to(current state) on a state that has a
\* callback, and the callback did not run
C5_Witness ==
  /\ lastCall.op = "transition_to"
  /\ lastCall.arg = current_state
  /\ current_state \in DOMAIN state_callbacks
  /\ lastCall.invoked = <<>>

C7_SnapshotDeterminedByState ==
  [][(lastCall'.op = "transition_to" /\ current_state' # current_state)
       => \A n \in DOMAIN widgets :
            widgets[n] = "QWidget"
              => /\ enabled'[n] =
                      _apply_state(current_state', AllEnabled, widgets)[n]
                 /\ enabled'[n] =
                      _apply_state(current_state', AllDisabled, widgets)[n]]_vars

C9_NonMemberRejected ==
  [][(lastCall' # lastCall /\ lastCall'.op = "transition_to"
        /\ lastCall'.arg \notin UIState)
       => /\ lastCall'.outcome # "returned"
          /\ current_state' = current_state
          /\ enabled' = enabled
          /\ lastCall'.invoked = <<>>]_vars

\* C10: a new gate is in INITIAL, and from every reachable state
\* transition_to(s) can be called for every member s and leaves the gate in
\* s: there is no terminal state and no transition table.
C10_AnyStateFromAnyState ==
  /\ current_state = INITIAL
  /\ [][(lastCall' # lastCall /\ lastCall'.op = "transition_to"
           /\ lastCall'.arg \in UIState)
          => current_state' = lastCall'.arg]_vars
  /\ [](\A s \in UIState :
          ENABLED (/\ transition_to(s)
                   /\ UNCHANGED <<jobs, signals, heap, procCall, roiVars,
                                  pluginVars>>
                   /\ current_state' = s))

\* INITIAL entered again by a transition (its callback ran)
C10_Witness ==
  /\ lastCall.op = "transition_to"
  /\ lastCall.arg = INITIAL
  /\ current_state = INITIAL
  /\ lastCall.invoked # <<>>

(***************************************************************************)
(* ROIManager of gui/widgets/roi_selector.py: two rectangles, each drawn   *)
(* on a slice, and the box that encloses both.                             *)
(***************************************************************************)
\* the rectangles (x_min, x_max, y_min, y_max) a caller stores: inside the
\* volume, partly outside it, wholly below 0 and wholly beyond it
Rects ==
  {<<1, 6, 2, 5>>, <<-3, 2, 4, 9>>, <<-8, -3, -9, -4>>, <<9, 14, 10, 15>>}

\* slice indices: negative, inside the volume and beyond it
ZSlices == {-2, 0, 3, 8}

\* volume shapes (Z, Y, X), every dimension >= 1
VolumeShapes == {<<1, 1, 1>>, <<4, 8, 7>>, <<5, 6, 12>>}

min(a, b) == IF a <= b THEN a ELSE b

max(a, b) == IF a >= b THEN a ELSE b

\* the statement of a method of the manager has run
ManagerCalled(op, volume_shape, outcome, result) ==
  /\ roiCall' = [op |-> op, after |-> roiCall.op,
                 volume_shape |-> volume_shape,
                 outcome |-> outcome, result |-> result]
  /\ UNCHANGED <<gateVars, jobs, signals, heap, procCall, selectorVars,
                 pluginVars>>

\* def set_roi1(self, z_slice, x_min, x_max, y_min, y_max)
set_roi1 ==
  \E z_slice \in ZSlices, rect \in Rects :
    LET x_min == rect[1]
        x_max == rect[2]
        y_min == rect[3]
        y_max == rect[4]
    IN  /\ roi1_3d' = <<z_slice, y_min, y_max, x_min, x_max>>
        /\ roi2_3d' = roi2_3d
        /\ ManagerCalled("set_roi1", None, "returned", None)

\* def set_roi2(self, z_slice, x_min, x_max, y_min, y_max)
set_roi2 ==
  \E z_slice \in ZSlices, rect \in Rects :
    LET x_min == rect[1]
        x_max == rect[2]
        y_min == rect[3]
        y_max == rect[4]
    IN  /\ roi2_3d' = <<z_slice, y_min, y_max, x_min, x_max>>
        /\ roi1_3d' = roi1_3d
        /\ ManagerCalled("set_roi2", None, "returned", None)

\* def reset(self)
reset ==
  /\ roi1_3d' = None
  /\ roi2_3d' = None
  /\ ManagerCalled("reset", None, "returned", None)

\* a manager that takes one rectangle for both
has_any_roi(r1, r2) == r1 # None \/ r2 # None

\* def has_both_rois(self)
has_both_rois(r1, r2) == r1 # None /\ r2 # None

\* the box of the first rectangle alone, clipped to the volume
combined_roi_coords_of_roi1(r1, r2, volume_shape) ==
  <<max(0, r1[1]), min(volume_shape[1] - 1, r1[1]),
    max(0, r1[2]), min(volume_shape[2] - 1, r1[3]),
    max(0, r1[4]), min(volume_shape[3] - 1, r1[5])>>

\* the box of both rectangles, not clipped
combined_roi_coords_unclipped(r1, r2, volume_shape) ==
  <<min(r1[1], r2[1]), max(r1[1], r2[1]),
    min(r1[2], r2[2]), max(r1[3], r2[3]),
    min(r1[4], r2[4]), max(r1[5], r2[5])>>

\* get_combined_roi_coords past its test: the box of both rectangles,
\* clipped to the volume
combined_roi_coords(r1, r2, volume_shape) ==
  LET z1_slice == r1[1]
      y1_0 == r1[2]
      y1_1 == r1[3]
      x1_0 == r1[4]
      x1_1 == r1[5]
      z2_slice == r2[1]
      y2_0 == r2[2]
      y2_1 == r2[3]
      x2_0 == r2[4]
      x2_1 == r2[5]
      x0 == min(x1_0, x2_0)
      x1 == max(x1_1, x2_1)
      y0 == min(y1_0, y2_0)
      y1 == max(y1_1, y2_1)
      z0 == min(z1_slice, z2_slice)
      z1 == max(z1_slice, z2_slice)
  IN  <<max(0, z0), min(volume_shape[1] - 1, z1),
        max(0, y0), min(volume_shape[2] - 1, y1),
        max(0, x0), min(volume_shape[3] - 1, x1)>>

\* def get_combined_roi_coords(self, volume_shape); unpacking None raises
\* TypeError
get_combined_roi_coords ==
  \E volume_shape \in VolumeShapes :
    /\ UNCHANGED <<roi1_3d, roi2_3d>>
    /\ IF ~has_both_rois(roi1_3d, roi2_3d)
       THEN ManagerCalled("get_combined_roi_coords", volume_shape,
                          "ValueError", None)
       ELSE IF roi1_3d = None \/ roi2_3d = None
       THEN ManagerCalled("get_combined_roi_coords", volume_shape,
                          "TypeError", None)
       ELSE ManagerCalled("get_combined_roi_coords", volume_shape,
                          "returned",
                          combined_roi_coords(roi1_3d, roi2_3d,
                                              volume_shape))

RoiNext ==
  \/ set_roi1
  \/ set_roi2
  \/ reset
  \/ get_combined_roi_coords

RoiSpecInit == Init /\ enabled = AllEnabled

SpecRoi == RoiSpecInit /\ [][RoiNext]_vars

\* the step is a call of get_combined_roi_coords
IsCombine == roiCall'.op = "get_combined_roi_coords" /\ roiCall' # roiCall

\* get_combined_roi_coords has returned a box
Combined ==
  roiCall.op = "get_combined_roi_coords" /\ roiCall.outcome = "returned"

\* C24: for any two stored rectangles and any volume shape with every
\* dimension >= 1, rectangles and slice indices partly or wholly outside
\* the volume included, the box returned by get_combined_roi_coords
\* satisfies 0 <= z0 <= z1 < depth, 0 <= y0 <= y1 < height and
\* 0 <= x0 <= x1 < width.
C24_BoxInsideVolume ==
  Combined
    => LET box == roiCall.result
           depth == roiCall.volume_shape[1]
           height == roiCall.volume_shape[2]
           width == roiCall.volume_shape[3]
       IN  /\ 0 <= box[1] /\ box[1] <= box[2] /\ box[2] < depth
           /\ 0 <= box[3] /\ box[3] <= box[4] /\ box[4] < height
           /\ 0 <= box[5] /\ box[5] <= box[6] /\ box[6] < width

\* C25: combine is commutative: for all rectangles a, b and every volume
\* shape, storing a as roi1 and b as roi2 gives the same combined box as
\* storing b as roi1 and a as roi2.
C25_CombineCommutative ==
  [][(IsCombine /\ roiCall'.outcome = "returned")
       => roiCall'.result
            = combined_roi_coords(roi2_3d, roi1_3d, roiCall'.volume_shape)
    ]_vars

\* two different rectangles on different slices have been combined
C25_Witness ==
  /\ Combined
  /\ roi1_3d[1] # roi2_3d[1]
  /\ roi1_3d[2] < roi2_3d[2]
  /\ roi1_3d[5] < roi2_3d[5]
  /\ roiCall.result[1] < roiCall.result[2]

\* C26: with both rectangles set, get_combined_roi_coords returns
\* (z0, z1, y0, y1, x0, x1) where, before clamping, x0/x1 and y0/y1 are the
\* min of the two minima and the max of the two maxima on that axis and
\* z0/z1 are the min and max of the two slice indices (the rectangles' X/Y
\* values are never used for Z); each lower bound is then raised to at
\* least 0 and each upper bound lowered to at most dim-1 of the matching
\* axis of volume_shape (Z, Y, X).
C26_BoxOfBothClamped ==
  [][(IsCombine /\ roiCall'.outcome = "returned")
       => LET Least(S) == CHOOSE m \in S : \A s \in S : m <= s
              Greatest(S) == CHOOSE m \in S : \A s \in S : m >= s
              Raised0(lower) == IF lower < 0 THEN 0 ELSE lower
              Lowered(upper, dim) ==
                IF upper > dim - 1 THEN dim - 1 ELSE upper
              shape == roiCall'.volume_shape
              box == roiCall'.result
          IN  /\ box[1] = Raised0(Least({roi1_3d[1], roi2_3d[1]}))
              /\ box[2] = Lowered(Greatest({roi1_3d[1], roi2_3d[1]}),
                                  shape[1])
              /\ box[3] = Raised0(Least({roi1_3d[2], roi2_3d[2]}))
              /\ box[4] = Lowered(Greatest({roi1_3d[3], roi2_3d[3]}),
                                  shape[2])
              /\ box[5] = Raised0(Least({roi1_3d[4], roi2_3d[4]}))
              /\ box[6] = Lowered(Greatest({roi1_3d[5], roi2_3d[5]}),
                                  shape[3])
    ]_vars

\* a box whose lower bounds were raised to 0 and whose upper bounds were
\* lowered to dim-1, of rectangles on two slices
C26_Witness ==
  /\ Combined
  /\ roi1_3d[1] < 0 /\ roi2_3d[1] > roiCall.volume_shape[1] - 1
  /\ roi1_3d[4] < 0 /\ roi2_3d[5] > roiCall.volume_shape[3] - 1
  /\ roi1_3d[2] < 0 /\ roi2_3d[3] > roiCall.volume_shape[2] - 1
  /\ roiCall.result = <<0, roiCall.volume_shape[1] - 1,
                        0, roiCall.volume_shape[2] - 1,
                        0, roiCall.volume_shape[3] - 1>>

\* C27: after any sequence of set_roi1, set_roi2 and reset calls,
\* get_combined_roi_coords fails with the missing-ROI error exactly when
\* has_both_rois() is false, i.e. when at least one of the two rectangles
\* has not been set since the last reset; the failing call leaves both
\* stored rectangles unchanged.
C27_MissingRoiError ==
  [][IsCombine
       => /\ roiCall'.outcome = "ValueError"
               <=> (roi1_3d = None \/ roi2_3d = None)
          /\ roiCall'.outcome = "ValueError"
               <=> ~has_both_rois(roi1_3d, roi2_3d)
          /\ roiCall'.outcome # "ValueError"
               => roiCall'.outcome = "returned"
          /\ roiCall'.outcome = "ValueError"
               => roi1_3d' = roi1_3d /\ roi2_3d' = roi2_3d
    ]_vars

\* the call has failed with one rectangle set and the other not
C27_Witness ==
  /\ roiCall.op = "get_combined_roi_coords"
  /\ roiCall.outcome = "ValueError"
  /\ roi1_3d = None
  /\ roi2_3d # None

(***************************************************************************)
(* calculate_dice_coefficient of core/processing.py on two masks of one    *)
(* shape.                                                                  *)
(***************************************************************************)
DiceShape == <<1, 2, 2>>

\* every 0/1 mask of the shape
DiceMasks == {NdArray(DiceShape, vox, "bool") : vox \in SUBSET Grid(DiceShape)}

DiceInit ==
  /\ GateInit
  /\ RoiInit
  /\ PluginInit
  /\ enabled = AllEnabled
  /\ jobs = NoJobs
  /\ signals = <<>>
  /\ \E mask1 \in DiceMasks, mask2 \in DiceMasks : heap = <<mask1, mask2>>
  /\ procCall = NoProcCall

\* mask1 & mask2 of two 0/1 arrays of one shape
np_and(a, b) == NdArray(a.shape, a.vox \cap b.vox, a.dtype)

\* the quotient computed without the test of sum_masks
calculate_dice_coefficient_unguarded(mask1, mask2) ==
  LET intersection == np_sum(np_and(mask1, mask2))
      sum_masks == np_sum(mask1) + np_sum(mask2)
  IN  Ratio(2 * intersection, sum_masks)

\* def calculate_dice_coefficient(mask1, mask2)
calculate_dice_coefficient(mask1, mask2) ==
  LET intersection == np_sum(np_and(mask1, mask2))
      sum_masks == np_sum(mask1) + np_sum(mask2)
  IN  IF sum_masks = 0
      THEN Ratio(1, 1)
      ELSE Ratio(2 * intersection, sum_masks)

\* dice = calculate_dice_coefficient(mask1, mask2), the two arguments being
\* two arrays or one array twice
CallDice ==
  \E mask1 \in DOMAIN heap, mask2 \in DOMAIN heap :
    /\ procCall' = [NoProcCall EXCEPT
                      !.fn = "calculate_dice_coefficient", !.n = 1,
                      !.after = procCall.fn,
                      !.mask = mask1, !.mask2 = mask2,
                      !.pc = "ended", !.outcome = "returned",
                      !.result = calculate_dice_coefficient(heap[mask1],
                                                            heap[mask2])]
    /\ UNCHANGED <<gateVars, jobs, signals, heap, roiVars, pluginVars>>

DiceNext == CallDice

SpecDice == DiceInit /\ [][DiceNext]_vars

\* calculate_dice_coefficient has returned
DiceCalled ==
  procCall.fn = "calculate_dice_coefficient" /\ procCall.outcome = "returned"

\* C28: Dice coefficient: for every mask A, dice(A, A) is exactly 1.0, A
\* empty included; for any two disjoint non-empty masks it is 0.0; for two
\* empty masks it is 1.0; in general it equals 2*|A n B| / (|A| + |B|)
\* whenever |A| + |B| > 0.
C28_Dice ==
  DiceCalled
    => LET A == heap[procCall.mask].vox
           B == heap[procCall.mask2].vox
           dice == procCall.result
       IN  /\ dice.den # 0
           /\ A = B => dice.num = dice.den
           /\ (A # {} /\ B # {} /\ A \cap B = {}) => dice.num = 0
           /\ (A = {} /\ B = {}) => dice.num = dice.den
           /\ Cardinality(A) + Cardinality(B) > 0
                => dice.num * (Cardinality(A) + Cardinality(B))
                     = 2 * Cardinality(A \cap B) * dice.den

\* an empty mask has been compared with itself
C28_Witness ==
  /\ DiceCalled
  /\ procCall.mask = procCall.mask2
  /\ heap[procCall.mask].vox = {}
  /\ procCall.result.num = procCall.result.den

(***************************************************************************)
(* ROISelector of gui/widgets/roi_selector.py.  A float coordinate is the  *)
(* tuple <<h>> of its value in half units (<<9>> is 4.5), so that None,    *)
(* the empty tuple, can be told from it; a Rectangle is the tuple          *)
(* <<x, y, width, height, linestyle>>; a connection id is <<signal>> and   *)
(* an axes object <<name>>.                                                *)
(***************************************************************************)
Float(halves) == <<halves>>

\* self.ax, and the other axes of the figure
ax == <<"ax">>

other_axes == <<"other">>

\* what a method that is no event handler is called with
NoMouseEvent == [inaxes |-> None, xdata |-> None, ydata |-> None]

\* xdata of the events: -0.5, 0.0, 4.5 and 5.0
XData == {Float(-1), Float(0), Float(9), Float(10)}

\* ydata of the events: 0.0 and 5.0
YData == {Float(0), Float(10)}

\* mouse events: on the axes of the selector, on other axes of the figure,
\* and outside every axes, where matplotlib sets xdata and ydata to None
MouseEvents ==
  [inaxes : {ax}, xdata : XData, ydata : YData]
    \cup [inaxes : {other_axes}, xdata : {Float(10)}, ydata : {Float(10)}]
    \cup {[inaxes |-> None, xdata |-> None, ydata |-> None]}

\* min and max of two floats
fmin(a, b) == IF a[1] <= b[1] THEN a ELSE b

fmax(a, b) == IF a[1] >= b[1] THEN a ELSE b

\* int(x) of a float: truncation toward zero
int(x) == IF x[1] >= 0 THEN x[1] \div 2 ELSE -((-x[1]) \div 2)

\* Rectangle((x0, y0), width, height, ..., linestyle='--', ...)
Rectangle(x0, y0, width, height) == <<x0, y0, width, height, "--">>

\* the method or handler has run
Handled(handler, event, callback) ==
  /\ handled' = [handler |-> handler, event |-> event, callback |-> callback]
  /\ UNCHANGED <<gateVars, jobs, signals, heap, procCall, managerVars,
                 pluginVars>>

\* canvas.mpl_disconnect of each connection id that is not None
Disconnected(s) ==
  canvas_callbacks
    \ {cid[1] : cid \in {s.cidpress, s.cidrelease, s.cidmotion} \ {None}}

\* def connect(self)
connect ==
  /\ selector' = [selector EXCEPT
                    !.cidpress = <<"button_press_event">>,
                    !.cidrelease = <<"button_release_event">>,
                    !.cidmotion = <<"motion_notify_event">>]
  /\ canvas_callbacks' =
       canvas_callbacks \cup {"button_press_event", "button_release_event",
                              "motion_notify_event"}
  /\ ax_patches' = ax_patches
  /\ Handled("connect", NoMouseEvent, <<>>)

\* def disconnect(self)
disconnect ==
  /\ canvas_callbacks' = Disconnected(selector)
  /\ UNCHANGED <<selector, ax_patches>>
  /\ Handled("disconnect", NoMouseEvent, <<>>)

\* def cancel(self)
cancel ==
  /\ selector' = [selector EXCEPT !.rect = None]
  /\ ax_patches' = ax_patches \ {selector.rect}
  /\ canvas_callbacks' = Disconnected(selector)
  /\ Handled("cancel", NoMouseEvent, <<>>)

\* def on_press(self, event)
on_press(event) ==
  /\ IF event.inaxes # ax
     THEN UNCHANGED <<selector, ax_patches>>
     ELSE /\ selector' = [selector EXCEPT
                            !.press = <<event.xdata, event.ydata>>,
                            !.x0 = event.xdata, !.y0 = event.ydata,
                            !.rect = None]
          /\ ax_patches' = ax_patches \ {selector.rect}
  /\ canvas_callbacks' = canvas_callbacks
  /\ Handled("on_press", event, <<>>)

\* def on_motion(self, event)
on_motion(event) ==
  /\ IF selector.press = None \/ event.inaxes # ax
     THEN UNCHANGED <<selector, ax_patches>>
     ELSE IF event.xdata = None \/ event.ydata = None
     THEN UNCHANGED <<selector, ax_patches>>
     ELSE LET x1 == event.xdata
              y1 == event.ydata
              width == x1[1] - selector.x0[1]
              height == y1[1] - selector.y0[1]
              rect == Rectangle(selector.x0, selector.y0, width, height)
          IN  /\ selector' = [selector EXCEPT !.rect = rect]
              /\ ax_patches' = (ax_patches \ {selector.rect}) \cup {rect}
  /\ canvas_callbacks' = canvas_callbacks
  /\ Handled("on_motion", event, <<>>)

\* a rectangle of four units is accepted
TooSmallBelowFour(x_min, x_max, y_min, y_max) ==
  x_max - x_min < 4 \/ y_max - y_min < 4

\* if x_max - x_min < 5 or y_max - y_min < 5
TooSmall(x_min, x_max, y_min, y_max) ==
  x_max - x_min < 5 \/ y_max - y_min < 5

\* rect.set_linestyle('-') of the final rectangle
Final(rect) == [rect EXCEPT ![5] = "-"]

\* def on_release(self, event)
on_release(event) ==
  IF selector.press = None
  THEN /\ UNCHANGED <<selector, ax_patches, canvas_callbacks>>
       /\ Handled("on_release", event, <<>>)
  ELSE IF event.xdata = None \/ event.ydata = None
  THEN /\ selector' = [selector EXCEPT !.press = None]
       /\ UNCHANGED <<ax_patches, canvas_callbacks>>
       /\ Handled("on_release", event, <<>>)
  ELSE LET x1 == event.xdata
           y1 == event.ydata
           x_min == int(fmin(selector.x0, x1))
           x_max == int(fmax(selector.x0, x1))
           y_min == int(fmin(selector.y0, y1))
           y_max == int(fmax(selector.y0, y1))
       IN  IF TooSmall(x_min, x_max, y_min, y_max)
           THEN /\ selector' = [selector EXCEPT
                                  !.press = None, !.rect = None]
                /\ ax_patches' = ax_patches \ {selector.rect}
                /\ canvas_callbacks' = canvas_callbacks
                /\ Handled("on_release", event, <<>>)
           ELSE /\ selector' =
                     [selector EXCEPT
                        !.press = None,
                        !.rect = IF @ # None THEN Final(@) ELSE @]
                /\ ax_patches' =
                     IF selector.rect # None
                     THEN (ax_patches \ {selector.rect})
                            \cup {Final(selector.rect)}
                     ELSE ax_patches
                /\ canvas_callbacks' = Disconnected(selector)
                /\ Handled("on_release", event,
                           <<<<x_min, x_max, y_min, y_max>>>>)

\* the canvas calls the handlers connected to the signal of an event
ButtonPress ==
  /\ "button_press_event" \in canvas_callbacks
  /\ \E event \in MouseEvents : on_press(event)

MotionNotify ==
  /\ "motion_notify_event" \in canvas_callbacks
  /\ \E event \in MouseEvents : on_motion(event)

ButtonRelease ==
  /\ "button_release_event" \in canvas_callbacks
  /\ \E event \in MouseEvents : on_release(event)

SelectorNext ==
  \/ connect
  \/ disconnect
  \/ cancel
  \/ ButtonPress
  \/ MotionNotify
  \/ ButtonRelease

SpecSelector == RoiSpecInit /\ [][SelectorNext]_vars

\* the step is a button release that on_release acts on: a press is
\* pending and the release has coordinates
IsRelease ==
  /\ handled'.handler = "on_release"
  /\ selectorVars' # selectorVars
  /\ selector.press # None
  /\ handled'.event.xdata # None

\* every handler of the selector is connected to the canvas
Connected ==
  canvas_callbacks = {"button_press_event", "button_release_event",
                      "motion_notify_event"}

\* C29: the ROI selector delivers a rectangle to its callback only when
\* x_max - x_min >= 5 and y_max - y_min >= 5; a release that ends a
\* too-small rectangle invokes no callback, removes the drawn rectangle and
\* leaves the selector connected so a new press/release can follow, while
\* an accepted release invokes the callback once and then disconnects the
\* selector.
C29_SelectorDelivery ==
  [][/\ \A i \in DOMAIN handled'.callback :
          /\ handled'.handler = "on_release"
          /\ handled'.callback[i][2] - handled'.callback[i][1] >= 5
          /\ handled'.callback[i][4] - handled'.callback[i][3] >= 5
     /\ IsRelease
          => LET x1 == handled'.event.xdata
                 y1 == handled'.event.ydata
                 x_min == int(fmin(selector.x0, x1))
                 x_max == int(fmax(selector.x0, x1))
                 y_min == int(fmin(selector.y0, y1))
                 y_max == int(fmax(selector.y0, y1))
             IN  IF x_max - x_min >= 5 /\ y_max - y_min >= 5
                 THEN /\ handled'.callback
                           = <<<<x_min, x_max, y_min, y_max>>>>
                      /\ canvas_callbacks' = {}
                 ELSE /\ handled'.callback = <<>>
                      /\ selector'.rect = None
                      /\ ax_patches' = {}
                      /\ Connected'
    ]_vars

\* a rectangle of exactly five units, drawn from -0.5 to 5.0, has been
\* delivered and the selector is disconnected
C29_Witness ==
  /\ handled.handler = "on_release"
  /\ handled.callback = <<<<0, 5, 0, 5>>>>
  /\ selector.x0 = Float(-1)
  /\ selector.rect # None
  /\ selector.rect[5] = "-"
  /\ canvas_callbacks = {}

(***************************************************************************)
(* The worker's _refine_with_progress and refine_mask on the same          *)
(* arguments: the worker runs first, then refine_mask is called with the   *)
(* base mask, volume, spacing and params of the worker; what the worker    *)
(* produced is kept in prior.                                              *)
(***************************************************************************)
\* what a refinement that has ended produced: its outcome, the returned
\* array, the statistics and the items of stats['params']
Produced ==
  IF procCall.outcome = "returned"
  THEN [outcome |-> "returned",
        mask |-> heap[procCall.result],
        stats |-> procCall.stats,
        params |-> heap[procCall.stats.params].items]
  ELSE [outcome |-> procCall.outcome, mask |-> <<>>, stats |-> <<>>,
        params |-> <<>>]

\* refined, stats = refine_mask(worker.base_mask, worker.volume,
\*                              worker.spacing, worker.params)
CallRefineMaskAfterWorker ==
  /\ procCall.fn = "_refine_with_progress"
  /\ procCall.pc = "ended"
  /\ procCall' = [NoProcCall EXCEPT
                    !.fn = "refine_mask", !.n = procCall.n + 1,
                    !.after = procCall.fn,
                    !.mask = BaseMask, !.params = procCall.params,
                    !.params_ref = Len(heap) + 1,
                    !.spacing = procCall.spacing, !.pc = "stage1",
                    !.cur = Len(heap) + 2,
                    !.base_count = np_sum(heap[BaseMask]),
                    !.outcome = "running",
                    !.prior = Produced]
  /\ heap' = Alloc(Alloc(heap, Dict(procCall.params)), heap[BaseMask])
  /\ UNCHANGED <<gateVars, jobs, signals, roiVars, pluginVars>>

EquivNext ==
  \/ CallRefineWithProgress
  \/ WorkerDilation
  \/ WorkerClosing
  \/ WorkerNoise
  \/ WorkerHoles
  \/ WorkerReturn
  \/ CallRefineMaskAfterWorker
  \/ RefineMaskDilation
  \/ RefineMaskClosing
  \/ RefineMaskNoise
  \/ RefineMaskHoles
  \/ RefineMaskReturn

SpecEquiv == RefineInit /\ [][EquivNext]_vars

\* refine_mask has ended on the arguments of a worker that ended before it
BothEnded ==
  /\ procCall.fn = "refine_mask"
  /\ procCall.pc = "ended"
  /\ procCall.prior.outcome # "none"

\* C31: the asynchronous refinement worker is equivalent to the synchronous
\* pipeline: for every (mask, volume, spacing, params) MaskRefinementWorker
\* produces the same refined mask, base_count, final_count,
\* improvement_percent, volume_ml and params as refine_mask, and the same
\* steps sequence (one entry per executed stage, in execution order).
C31_WorkerEquivalent ==
  BothEnded
    => /\ procCall.prior.outcome = procCall.outcome
       /\ procCall.outcome = "returned"
            => /\ procCall.prior.mask = heap[procCall.result]
               /\ procCall.prior.stats.base_count = procCall.stats.base_count
               /\ procCall.prior.stats.final_count
                    = procCall.stats.final_count
               /\ procCall.prior.stats.improvement_percent
                    = procCall.stats.improvement_percent
               /\ procCall.prior.stats.volume_ml = procCall.stats.volume_ml
               /\ procCall.prior.params
                    = heap[procCall.stats.params].items
               /\ procCall.prior.stats.steps = procCall.stats.steps

\* C35: HU-gated dilation only grows the mask: every voxel that is
\* foreground before stage 1 is still foreground after it, so the stage's
\* voxels_added (voxels_after - voxels_before) is never negative, for every
\* volume and every hu_min <= hu_max.
C35_HuDilationOnlyGrows ==
  [][/\ IsHuDilationStep
          => heap[procCall.cur].vox \subseteq heap'[procCall'.cur].vox
     /\ (IsCallOf("_apply_hu_dilation") /\ procCall'.outcome = "returned")
          => /\ heap[procCall'.mask].vox \subseteq heap'[procCall'.result].vox
             /\ procCall'.stats.voxels_added >= 0
    ]_vars

\* C37: stage statistics chain: in every result of refine_mask the first
\* step's voxels_before equals base_count, each later step's voxels_before
\* equals the previous step's voxels_after, the last step's voxels_after
\* equals final_count, and final_count equals the number of foreground
\* voxels of the returned mask, whose values are all in {0,1}.
C37_StatisticsChain ==
  RefineMaskReturned
    => LET stats == procCall.stats
           steps == stats.steps
       IN  /\ Len(steps) >= 1
           /\ steps[1].voxels_before = stats.base_count
           /\ \A i \in 2 .. Len(steps) :
                steps[i].voxels_before = steps[i - 1].voxels_after
           /\ steps[Len(steps)].voxels_after = stats.final_count
           /\ stats.final_count = Cardinality(heap[procCall.result].vox)
           /\ heap[procCall.result].dtype = "uint8"
           /\ heap[procCall.result].vox
                \subseteq Grid(heap[procCall.result].shape)

\* a result of four stages, of which the first and a later one changed the
\* number of voxels
C37_Witness ==
  /\ RefineMaskReturned
  /\ Len(procCall.stats.steps) = 4
  /\ procCall.stats.steps[1].voxels_before
       # procCall.stats.steps[1].voxels_after
  /\ \E i \in 2 .. 4 :
       procCall.stats.steps[i].voxels_before
         # procCall.stats.steps[i].voxels_after
  /\ procCall.stats.final_count > 0

\* C33: widget enablement agrees with the capability predicates: after any
\* non-empty sequence of transitions on a gate with all widgets registered,
\* btn_segment is enabled iff can_segment(), btn_apply_refinement is enabled
\* iff can_refine(), btn_save is enabled iff can_save(), and btn_load is
\* enabled iff can_load_dicom() (e.g. after MASK_READY then SAVING the
\* segment button is disabled).
C33_EnablementAgreesWithCapabilities ==
  [][(/\ widgets = AllWidgets
      /\ lastCall'.op = "transition_to"
      /\ current_state' # current_state)
       => /\ enabled'["btn_segment"] <=> can_segment(current_state')
          /\ enabled'["btn_apply_refinement"] <=> can_refine(current_state')
          /\ enabled'["btn_save"] <=> can_save(current_state')
          /\ enabled'["btn_load"] <=> can_load_dicom(current_state')
    ]_vars

(***************************************************************************)
(* One run of either worker, from start() to the end of run(): signals is  *)
(* the sequence of events of the run, in emission order.                   *)
(***************************************************************************)
\* SegmentationWorker.run: an exception before self.model.segment is
\* called (self.model.display_name, self.model.device.upper(),
\* self.roi_coords[0]); nothing was emitted yet or only log lines
RaiseBeforeSegment(j) ==
  /\ jobs[j].kind = "segmentation"
  /\ jobs[j].pc = "run"
  /\ \E n \in 0 .. 2 :
       Emit([i \in 1 .. n |-> Signal("log", j, 0)]
              \o <<Signal("log", j, 0), Signal("error", j, 0)>>)
  /\ GoTo(j, "done")
  /\ UNCHANGED <<gateVars, heap, procCall, roiVars, pluginVars>>

\* worker.start() of a SegmentationWorker or of a MaskRefinementWorker
StartWorker ==
  /\ jobs = NoJobs
  /\ signals = <<>>
  /\ \E j \in DOMAIN jobs :
       \/ \E params \in RefineParams :
            jobs' = [jobs EXCEPT ![j] = Job("refinement", "run", params, 0)]
       \/ jobs' = [jobs EXCEPT ![j] = Job("segmentation", "run", NoParams, 0)]
  /\ UNCHANGED <<gateVars, signals, heap, procCall, roiVars, pluginVars>>

WorkersNext ==
  \/ StartWorker
  \/ \E j \in DOMAIN jobs : RefinementRun(j)
  \/ \E j \in DOMAIN jobs : RefinementDilation(j)
  \/ \E j \in DOMAIN jobs : RefinementClosing(j)
  \/ \E j \in DOMAIN jobs : RefinementNoise(j)
  \/ \E j \in DOMAIN jobs : RefinementHoles(j)
  \/ \E j \in DOMAIN jobs : RefinementFinal(j)
  \/ \E j \in DOMAIN jobs : RefinementReady(j)
  \/ \E j \in DOMAIN jobs : RefinementFinished(j)
  \/ \E j \in DOMAIN jobs : RaiseInRefinement(j)
  \/ \E j \in DOMAIN jobs : SegmentationRun(j)
  \/ \E j \in DOMAIN jobs : SegmentationProgress(j)
  \/ \E j \in DOMAIN jobs : SegmentationFinished(j)
  \/ \E j \in DOMAIN jobs : RaiseBeforeSegment(j)
  \/ \E j \in DOMAIN jobs : RaiseInSegmentation(j)

SpecWorkers == Init /\ [][WorkersNext]_vars

IsTerminal(e) == e.sig \in {"finished", "error"}

\* the positions in signals of the terminal events of job j
TerminalEvents(j) ==
  {i \in DOMAIN signals : signals[i].job = j /\ IsTerminal(signals[i])}

\* C34: every run of SegmentationWorker or MaskRefinementWorker ends with
\* exactly one terminal event, finished or error, never both and never
\* neither; a run that has not ended has emitted none; no event of the run,
\* progress included, follows its terminal event.
C34_ExactlyOneTerminalEvent ==
  \A j \in DOMAIN jobs :
    /\ jobs[j].pc = "done" => Cardinality(TerminalEvents(j)) = 1
    /\ jobs[j].pc # "done" => TerminalEvents(j) = {}
    /\ \A i \in TerminalEvents(j) :
         \A k \in DOMAIN signals : signals[k].job = j => k <= i

\* a segmentation that failed after the model reported progress 90
C34_Witness ==
  \E j \in DOMAIN jobs :
    /\ jobs[j].pc = "done"
    /\ jobs[j].kind = "segmentation"
    /\ signals[Len(signals)] = Signal("error", j, 0)
    /\ \E i \in DOMAIN signals : signals[i] = Signal("progress", j, 90)

(***************************************************************************)
(* models/lungmask_segmenter.py: LungMaskSegmenter.segment, called by      *)
(* SegmentationWorker.run with self._progress_callback.  The arrays are    *)
(* not part of this model: a step is the code up to its next call of a     *)
(* library that can raise.  A string is the sequence of its characters.    *)
(***************************************************************************)
\* _run_segmentation: if n_slices > 100
BatchThreshold == 100
\* the largest process_volume.shape[0] of a call of segment
MaxVolumeSlices == 101
\* calls of segment on one LungMaskSegmenter
MaxSegmentCalls == 2

VolumeSlices == {1, BatchThreshold, MaxVolumeSlices}
BatchSizes == {20, 50}

UpperCase ==
  <<"A", "B", "C", "D", "E", "F", "G", "H", "I", "J", "K", "L", "M", "N",
    "O", "P", "Q", "R", "S", "T", "U", "V", "W", "X", "Y", "Z">>

LowerCase ==
  <<"a", "b", "c", "d", "e", "f", "g", "h", "i", "j", "k", "l", "m", "n",
    "o", "p", "q", "r", "s", "t", "u", "v", "w", "x", "y", "z">>

\* str.lower()
lower(s) ==
  [i \in DOMAIN s |->
     IF \E k \in DOMAIN UpperCase : UpperCase[k] = s[i]
       THEN LowerCase[CHOOSE k \in DOMAIN UpperCase : UpperCase[k] = s[i]]
       ELSE s[i]]

\* needle in s
Contains(needle, s) ==
  \E i \in 1 .. (Len(s) - Len(needle) + 1) :
    SubSeq(s, i, i + Len(needle) - 1) = needle

\* 'out of memory'
OutOfMemory ==
  <<"o", "u", "t", " ", "o", "f", " ", "m", "e", "m", "o", "r", "y">>

\* "CUDA out of memory", "CUDA Out Of Memory", "CUDA error"
Messages ==
  {<<"C", "U", "D", "A", " ">> \o OutOfMemory,
   <<"C", "U", "D", "A", " ", "O", "u", "t", " ", "O", "f", " ", "M", "e",
     "m", "o", "r", "y">>,
   <<"C", "U", "D", "A", " ", "e", "r", "r", "o", "r">>}

\* torch.cuda.OutOfMemoryError is a subclass of RuntimeError
ErrorTypes == {"RuntimeError", "OutOfMemoryError", "ValueError"}

IsRuntimeError(type) == type \in {"RuntimeError", "OutOfMemoryError"}

\* what self._inferer.apply and the methods of the base class can raise
Errors == [type : ErrorTypes, message : Messages]

\* load_model: raise ImportError(...), raise RuntimeError(f"...: {e}")
LoadErrors == [type : {"ImportError", "RuntimeError"}, message : Messages]

\* LMInferer(modelname=self.model_name, force_cpu=self.use_cpu)
LMInferer(force_cpu) == <<[force_cpu |-> force_cpu]>>

\* load_model, when it raises nothing
load_model(self) == [self EXCEPT !._inferer = LMInferer(self.use_cpu)]

\* the test of the except clause without its second operand
RetryAlsoOnCpu(e, self) ==
  Contains(OutOfMemory, lower(e.message))

\* segment: 'out of memory' in str(e).lower() and not self.use_cpu
IsRetried(e, self) ==
  /\ Contains(OutOfMemory, lower(e.message))
  /\ ~self.use_cpu

\* progress_callback(percentage, message)
Reported(call, pcts) == [call EXCEPT !.progress = @ \o pcts]

\* the call ends with an exception that leaves segment
Propagated(call, e) ==
  [call EXCEPT !.pc = "ended", !.outcome = "raised", !.error = <<e>>]

\* an exception raised in _run_segmentation: the first call of
\* _run_segmentation is in the try block, whose except clause catches
\* RuntimeError; the second call is in the except clause
Thrown(call, e) ==
  IF call.attempt = 1
    THEN IF IsRuntimeError(e.type)
           THEN [call EXCEPT !.pc = "except", !.first_error = <<e>>]
           ELSE [Propagated(call, e) EXCEPT !.first_error = <<e>>]
    ELSE Propagated(call, e)

\* _batch_segment: n_batches
NBatches(n_slices, batch_size) == (n_slices + batch_size - 1) \div batch_size

\* _batch_segment: progress = 30 + int((batch_idx / n_batches) * 60)
BatchProgress(batch_idx, n_batches) == 30 + ((batch_idx * 60) \div n_batches)

\* a LungMaskSegmenter as its constructor leaves it; device is set by the
\* base class
SegmenterSpecInit ==
  /\ GateInit
  /\ RoiInit
  /\ RegistryInit
  /\ reentry = NoReentry
  /\ jobs = NoJobs
  /\ signals = <<>>
  /\ heap = <<>>
  /\ procCall = NoProcCall
  /\ segmenter \in [use_cpu : BOOLEAN, device : {"cuda", "cpu"},
                    batch_size : BatchSizes, _inferer : {None}]
  /\ segCall = NoSegCall

\* SegmentationWorker.run: self.progress.emit(5, ...) and the call of
\* self.model.segment
CallSegment ==
  /\ segCall.pc \in {"none", "ended"}
  /\ segCall.n < MaxSegmentCalls
  /\ \E n_slices \in VolumeSlices :
       segCall' = [NoSegCall EXCEPT !.pc = "validate",
                                    !.n = segCall.n + 1,
                                    !.n_slices = n_slices,
                                    !.use_cpu_on_entry = segmenter.use_cpu,
                                    !.progress = <<5>>]
  /\ UNCHANGED <<gateVars, jobs, signals, heap, procCall, roiVars,
                 segmenter, registryVars, reentry>>

\* segment: self.validate_input(volume, spacing)
SegmentValidate ==
  /\ segCall.pc = "validate"
  /\ \/ segCall' = [segCall EXCEPT !.pc = "load"]
     \/ \E e \in Errors : segCall' = Propagated(segCall, e)
  /\ UNCHANGED <<gateVars, jobs, signals, heap, procCall, roiVars,
                 segmenter, registryVars, reentry>>

\* segment: load_model if self._inferer is None, the extraction of the
\* ROI, progress_callback(10, ...), the SimpleITK image,
\* progress_callback(20, ...)
SegmentPrepare ==
  /\ segCall.pc = "load"
  /\ \/ /\ segmenter' = IF segmenter._inferer = None
                          THEN load_model(segmenter)
                          ELSE segmenter
        /\ segCall' = [Reported(segCall, <<10, 20>>) EXCEPT
                         !.pc = "run",
                         !.loads = IF segmenter._inferer = None
                                     THEN @ + 1 ELSE @]
     \/ /\ segmenter._inferer = None
        /\ \E e \in LoadErrors : segCall' = Propagated(segCall, e)
        /\ UNCHANGED segmenter
  /\ UNCHANGED <<gateVars, jobs, signals, heap, procCall, roiVars,
                 registryVars, reentry>>

\* _run_segmentation up to the call of self._inferer.apply or of
\* _batch_segment
RunSegmentation ==
  /\ segCall.pc = "run"
  /\ segCall' = [Reported(segCall, <<25>>) EXCEPT
                   !.attempt = @ + 1,
                   !.batch_idx = 0,
                   !.pc = IF segCall.n_slices > BatchThreshold
                            THEN "batch" ELSE "apply"]
  /\ UNCHANGED <<gateVars, jobs, signals, heap, procCall, roiVars,
                 segmenter, registryVars, reentry>>

\* _run_segmentation: return self._inferer.apply(sitk_image)
InfererApply ==
  /\ segCall.pc = "apply"
  /\ \/ segCall' = [segCall EXCEPT !.pc = "post"]
     \/ \E e \in Errors : segCall' = Thrown(segCall, e)
  /\ UNCHANGED <<gateVars, jobs, signals, heap, procCall, roiVars,
                 segmenter, registryVars, reentry>>

\* _batch_segment: one iteration of the loop over the batches
BatchSegment ==
  /\ segCall.pc = "batch"
  /\ LET n_batches == NBatches(segCall.n_slices, segmenter.batch_size)
         reported ==
           Reported(segCall, <<BatchProgress(segCall.batch_idx, n_batches)>>)
     IN  \/ segCall' = [reported EXCEPT
                          !.batch_idx = @ + 1,
                          !.pc = IF segCall.batch_idx + 1 = n_batches
                                   THEN "post" ELSE "batch"]
         \/ \E e \in Errors : segCall' = Thrown(reported, e)
  /\ UNCHANGED <<gateVars, jobs, signals, heap, procCall, roiVars,
                 segmenter, registryVars, reentry>>

\* segment: except RuntimeError as e
SegmentExcept ==
  /\ segCall.pc = "except"
  /\ LET e == segCall.first_error[1]
         on_cpu == [segmenter EXCEPT !.use_cpu = TRUE, !.device = "cpu"]
     IN  IF IsRetried(e, segmenter)
           THEN \/ /\ segmenter' = load_model(on_cpu)
                   /\ segCall' = [Reported(segCall, <<30>>) EXCEPT
                                    !.pc = "run", !.loads = @ + 1]
                \/ /\ segmenter' = on_cpu
                   /\ \E le \in LoadErrors :
                        segCall' = Propagated(Reported(segCall, <<30>>), le)
           ELSE /\ segCall' = Propagated(segCall, e)
                /\ UNCHANGED segmenter
  /\ UNCHANGED <<gateVars, jobs, signals, heap, procCall, roiVars,
                 registryVars, reentry>>

\* segment: postprocess_mask, progress_callback(90, ...), the statistics,
\* progress_callback(100, ...), return
SegmentReturn ==
  /\ segCall.pc = "post"
  /\ \/ segCall' = [Reported(segCall, <<90, 100>>) EXCEPT
                      !.pc = "ended",
                      !.outcome = "returned",
                      !.stats = <<[device |-> segmenter.device,
                                   used_batching |->
                                     segCall.n_slices > BatchThreshold]>>]
     \/ \E e \in Errors : segCall' = Propagated(segCall, e)
  /\ UNCHANGED <<gateVars, jobs, signals, heap, procCall, roiVars,
                 segmenter, registryVars, reentry>>

SegmentNext ==
  \/ CallSegment
  \/ SegmentValidate
  \/ SegmentPrepare
  \/ RunSegmentation
  \/ InfererApply
  \/ BatchSegment
  \/ SegmentExcept
  \/ SegmentReturn

SpecSegment == SegmenterSpecInit /\ [][SegmentNext]_vars

\* C32: during one segmentation the percentages the progress callback
\* delivers, the worker's 5 first, are non-decreasing and within [0,100],
\* on the batched path and on the path of the retry on the CPU too.
C32_SegmentationProgressMonotone ==
  LET P == segCall.progress
  IN  /\ \A i \in DOMAIN P : P[i] >= 0 /\ P[i] <= 100
      /\ \A i, k \in DOMAIN P : i < k => P[i] <= P[k]

\* C36: segment calls _run_segmentation at most twice, and twice only
\* when the first attempt raised a RuntimeError whose message contains
\* 'out of memory' (whatever the case of its letters) while use_cpu was
\* false; the retry runs with use_cpu true, device 'cpu' and the model
\* reloaded, and both stay set; every other error of the first attempt
\* and every failure of the retry leaves segment with no further attempt.
C36_FallbackRetriesOnce ==
  [][LET c == segCall'
         Oom(e) == /\ IsRuntimeError(e.type)
                   /\ Contains(OutOfMemory, lower(e.message))
     IN  /\ c.attempt <= 2
         /\ c.attempt = 2
              => /\ c.first_error # None
                 /\ Oom(c.first_error[1])
                 /\ ~c.use_cpu_on_entry
                 /\ segmenter'.use_cpu
                 /\ segmenter'.device = "cpu"
                 /\ segmenter'._inferer = LMInferer(TRUE)
                 /\ c.loads >= 1
         /\ (c.first_error # None
               /\ ~(Oom(c.first_error[1]) /\ ~c.use_cpu_on_entry))
              => /\ c.attempt = 1
                 /\ c.pc \in {"except", "ended"}
                 /\ c.pc = "ended"
                      => c.outcome = "raised" /\ c.error = c.first_error
         /\ (segCall.attempt = 2 /\ segCall.outcome = "raised")
              => c.n > segCall.n
         /\ segmenter.use_cpu => segmenter'.use_cpu
         /\ (segmenter.use_cpu /\ segmenter.device = "cpu")
              => segmenter'.device = "cpu"]_vars

\* a batched segmentation that ran out of memory in its second batch, was
\* retried on the CPU and returned
C36_Witness ==
  /\ segCall.pc = "ended"
  /\ segCall.outcome = "returned"
  /\ segCall.attempt = 2
  /\ segCall.n_slices > BatchThreshold
  /\ segCall.stats[1].device = "cpu"
  /\ \E i \in DOMAIN segCall.progress :
       i > 1 /\ segCall.progress[i] = 30 /\ segCall.progress[i - 1] > 30

(***************************************************************************)
(* The gate with callbacks that call transition_to themselves.  A call of  *)
(* transition_to that invoked a callback stays on reentry.stack until the  *)
(* callback returns; the callback can call transition_to meanwhile.        *)
(***************************************************************************)
\* calls of transition_to in progress at the same time
MaxDepth == 2
\* calls of transition_to that the callbacks of one outer call make
MaxNestedCalls == 2

\* transition_to that calls the callback before _apply_state
enter_transition_unapplied(new_state, r) ==
  LET called == [r EXCEPT !.last_target = new_state]
  IN  IF new_state = current_state
        THEN /\ reentry' = called
             /\ UNCHANGED <<current_state, enabled>>
        ELSE /\ current_state' = new_state
             /\ UNCHANGED enabled
             /\ reentry' =
                  IF new_state \in DOMAIN state_callbacks
                    THEN [called EXCEPT
                            !.stack = Append(@, new_state),
                            !.invoked = Append(@, state_callbacks[new_state]),
                            !.entered =
                              <<[key |-> new_state,
                                 current_state |-> current_state',
                                 before |-> enabled,
                                 enabled |-> enabled']>>]
                    ELSE called

\* transition_to(new_state) up to and including the call of the callback;
\* entered is what the callback finds when it starts.  r is reentry with
\* the call counted.
enter_transition(new_state, r) ==
  LET called == [r EXCEPT !.last_target = new_state]
  IN  IF new_state = current_state
        THEN /\ reentry' = called
             /\ UNCHANGED <<current_state, enabled>>
        ELSE /\ current_state' = new_state
             /\ enabled' = _apply_state(new_state, enabled, widgets)
             /\ reentry' =
                  IF new_state \in DOMAIN state_callbacks
                    THEN [called EXCEPT
                            !.stack = Append(@, new_state),
                            !.invoked = Append(@, state_callbacks[new_state]),
                            !.entered =
                              <<[key |-> new_state,
                                 current_state |-> current_state',
                                 before |-> enabled,
                                 enabled |-> enabled']>>]
                    ELSE called

\* a call of transition_to from outside any callback
OuterTransitionTo ==
  /\ reentry.stack = <<>>
  /\ \E s \in UIState :
       /\ enter_transition(s, NoReentry)
       /\ lastCall' =
            Call("transition_to", s,
                 IF reentry'.stack = <<>> THEN "returned" ELSE "in callback",
                 <<>>)
  /\ UNCHANGED <<widgets, state_callbacks, jobs, signals, heap, procCall,
                 roiVars, segmenterVars, registryVars>>

\* the callback that is running calls transition_to(t)
CallbackTransitionTo ==
  /\ reentry.stack # <<>>
  /\ reentry.calls < MaxNestedCalls
  /\ \E t \in UIState :
       enter_transition(t, [reentry EXCEPT !.calls = @ + 1])
  /\ Len(reentry'.stack) <= MaxDepth
  /\ UNCHANGED <<widgets, state_callbacks, lastCall, jobs, signals, heap,
                 procCall, roiVars, segmenterVars, registryVars>>

\* the callback that is running returns, and with it the call of
\* transition_to that invoked it
CallbackReturns ==
  /\ reentry.stack # <<>>
  /\ reentry' = IF Len(reentry.stack) = 1
                  THEN NoReentry
                  ELSE [reentry EXCEPT !.stack = SubSeq(@, 1, Len(@) - 1)]
  /\ lastCall' =
       IF Len(reentry.stack) = 1
         THEN Call("transition_to", reentry.stack[1], "returned",
                   reentry.invoked)
         ELSE lastCall
  /\ UNCHANGED <<current_state, widgets, state_callbacks, enabled, jobs,
                 signals, heap, procCall, roiVars, segmenterVars,
                 registryVars>>

\* the states the window registers such a callback for
CallbackStates == {MASK_READY, SAVING}

\* register_state_callback(s, callback), outside any callback
RegisterReentrantCallback ==
  /\ reentry.stack = <<>>
  /\ \E s \in CallbackStates : register_state_callback(s, 1)
  /\ UNCHANGED <<jobs, signals, heap, procCall, roiVars, pluginVars>>

ReentrantNext ==
  \/ reentry.stack = <<>> /\ RegisterWidgets
  \/ RegisterReentrantCallback
  \/ OuterTransitionTo
  \/ CallbackTransitionTo
  \/ CallbackReturns

SpecReentrant == Init /\ [][ReentrantNext]_vars

\* C38: a state callback runs only after the transition has taken effect:
\* when it starts, current_state is already the state it is registered for
\* and the widget configuration of that state is applied; and when
\* callbacks call transition_to, the gate is, when the outer call returns,
\* in the state of the last of these calls.
C38_CallbackAfterTransition ==
  [][/\ reentry'.stack # <<>>
          => LET e == reentry'.entered[1]
             IN  /\ e.current_state = e.key
                 /\ e.enabled = _apply_state(e.key, e.before, widgets')
     /\ (/\ reentry.stack # <<>>
         /\ reentry'.stack = <<>>
         /\ reentry.calls > 0)
          => current_state' = reentry.last_target]_vars

\* the callback of the state of the outer call called transition_to for
\* another state, with every widget registered, and the outer call
\* returned
C38_Witness ==
  /\ reentry.stack = <<>>
  /\ lastCall.op = "transition_to"
  /\ lastCall.outcome = "returned"
  /\ Len(lastCall.invoked) = 1
  /\ current_state # lastCall.arg
  /\ widgets = AllWidgets

(***************************************************************************)
(* core/model_loader.py: ModelRegistry.  A string that is built from       *)
(* parts is the sequence of its parts; a keyword argument is the pair of   *)
(* its name and the repr of its value, and kwargs lists the arguments in   *)
(* the order the caller wrote them.  A model instance is an object of the  *)
(* heap.  The models directory does not change while the program runs.    *)
(***************************************************************************)
\* calls on one ModelRegistry
MaxRegistryCalls == 4

\* discover_models(self.models_dir): display_name -> class, for the one
\* model of models/
ModelsOnDisk == [n \in {"LungMask"} |-> "LungMaskSegmenter"]

DisplayNames == {"LungMask", "Liver"}

KwargsChoices ==
  {<<>>,
   <<<<"use_cpu", "True">>>>,
   <<<<"use_cpu", "False">>>>,
   <<<<"use_cpu", "True">>, <<"batch_size", "20">>>>,
   <<<<"batch_size", "20">>, <<"use_cpu", "True">>>>}

\* the order of str on the names of the arguments
KeyRank(k) == IF k = "batch_size" THEN 1 ELSE 2

RECURSIVE Insert(_, _)
Insert(item, s) ==
  IF s = <<>> \/ KeyRank(item[1]) <= KeyRank(Head(s)[1])
    THEN <<item>> \o s
    ELSE <<Head(s)>> \o Insert(item, Tail(s))

\* sorted(kwargs.items())
RECURSIVE sorted(_)
sorted(items) ==
  IF items = <<>> THEN <<>> ELSE Insert(Head(items), sorted(Tail(items)))

\* str of a list of pairs: "[('use_cpu', True), ('batch_size', 20)]"
RECURSIVE ItemsStr(_)
ItemsStr(items) ==
  IF items = <<>>
    THEN <<>>
    ELSE <<"('", Head(items)[1], "', ", Head(items)[2], ")">>
           \o (IF Tail(items) = <<>> THEN <<>> ELSE <<", ">>)
           \o ItemsStr(Tail(items))

str(items) == <<"[">> \o ItemsStr(items) \o <<"]">>

\* the key built from the arguments in the order they were passed
cache_key_unsorted(display_name, kwargs) ==
  <<display_name, "_">> \o str(kwargs)

\* get_model_instance: f"{display_name}_{str(sorted(kwargs.items()))}"
cache_key(display_name, kwargs) ==
  <<display_name, "_">> \o str(sorted(kwargs))

\* model_class(**kwargs), when the constructor raises nothing
ModelInstance(model_class, kwargs) ==
  [cls |-> model_class, kwargs |-> kwargs]

\* kwargs as the dict the callee receives
AsDict(kwargs) == {kwargs[i] : i \in DOMAIN kwargs}

RegistryCalled(op, display_name, kwargs, key, outcome, result) ==
  [op |-> op, n |-> registryCall.n + 1, display_name |-> display_name,
   kwargs |-> kwargs, cache_key |-> key, outcome |-> outcome,
   result |-> result]

\* ModelRegistry.load_models
LoadModels ==
  /\ registryCall.n < MaxRegistryCalls
  /\ registry' = [registry EXCEPT !._models = ModelsOnDisk]
  /\ registryCall' = RegistryCalled("load_models", "", <<>>, None,
                                    "returned", None)
  /\ UNCHANGED <<gateVars, jobs, signals, heap, procCall, roiVars,
                 segmenterVars, reentry>>

\* ModelRegistry.get_model_instance(display_name, **kwargs), with
\* get_model_class and instantiate_model
GetModelInstance ==
  /\ registryCall.n < MaxRegistryCalls
  /\ \E display_name \in DisplayNames, kwargs \in KwargsChoices :
       LET key == cache_key(display_name, kwargs)
           cached == registry._instances
           Ended(outcome, result) ==
             RegistryCalled("get_model_instance", display_name, kwargs,
                            <<key>>, outcome, result)
       IN  IF key \notin DOMAIN cached
                /\ display_name \in DOMAIN registry._models
             THEN \/ /\ heap' =
                          Alloc(heap,
                                ModelInstance(registry._models[display_name],
                                              kwargs))
                     /\ registry' =
                          [registry EXCEPT
                             !._instances =
                               [k \in DOMAIN cached \cup {key} |->
                                  IF k = key THEN Len(heap) + 1
                                             ELSE cached[k]]]
                     /\ registryCall' = Ended("returned", <<Len(heap) + 1>>)
                  \/ /\ registryCall' = Ended("raised", None)
                     /\ UNCHANGED <<heap, registry>>
             ELSE /\ registryCall' =
                       Ended("returned",
                              IF key \in DOMAIN cached
                                THEN <<cached[key]>> ELSE None)
                  /\ UNCHANGED <<heap, registry>>
  /\ UNCHANGED <<gateVars, jobs, signals, procCall, roiVars, segmenterVars,
                 reentry>>

RegistryNext == LoadModels \/ GetModelInstance

SpecRegistry == Init /\ [][RegistryNext]_vars

\* C39: the registry instantiates each model at most once per display
\* name and constructor arguments: a call of get_model_instance that
\* returns an instance returns the one instance of that model and those
\* arguments, and the cached one when there is one; a name that is not
\* registered returns None and adds nothing to the cache; when the
\* instantiation raises nothing is cached and nothing was created.
C39_OneInstancePerKey ==
  [][LET c == registryCall'
         instances == registry'._instances
     IN  /\ \A i, k \in DOMAIN heap' :
              (/\ heap'[i].cls = heap'[k].cls
               /\ AsDict(heap'[i].kwargs) = AsDict(heap'[k].kwargs))
                => i = k
         /\ (c.op = "get_model_instance" /\ c.n > registryCall.n)
              => /\ (c.outcome = "returned" /\ c.result # None)
                      => /\ heap'[c.result[1]].cls
                              = registry._models[c.display_name]
                         /\ AsDict(heap'[c.result[1]].kwargs)
                              = AsDict(c.kwargs)
                         /\ \A k \in DOMAIN registry._instances :
                              instances[k] = registry._instances[k]
                 /\ c.display_name \notin DOMAIN registry._models
                      => /\ c.outcome = "returned"
                         /\ c.result = None
                         /\ instances = registry._instances
                 /\ c.outcome = "raised"
                      => instances = registry._instances /\ heap' = heap
                 /\ c.outcome = "returned"
                      /\ c.display_name \in DOMAIN registry._models
                      => c.result # None]_vars

\* the same arguments written in another order are served by the cached
\* instance, the only one that the calls created
C39_Witness ==
  /\ registryCall.op = "get_model_instance"
  /\ registryCall.outcome = "returned"
  /\ registryCall.result # None
  /\ registryCall.n = MaxRegistryCalls
  /\ Len(heap) = 1
  /\ heap[registryCall.result[1]].kwargs # registryCall.kwargs

====
